---- MODULE Spec2Model ----
(***************************************************************************)
(* The spaced-repetition engine of poker-learn (src/src/engine/srs.ts), as *)
(* a state machine whose actions are the calls of its exported functions   *)
(* and the App's reset handler.                                            *)
(*                                                                         *)
(* Numbers.  CardState.ease is a JavaScript double that moves in steps of  *)
(* 0.1 and 0.3; the model holds it in tenths (2.5 is 25, the floor 1.3 is  *)
(* 13).  Math.round(interval * ease) on doubles and the tenths arithmetic  *)
(* of Round10 give the same interval for every sequence of up to 14        *)
(* answers on one card, which is far beyond MaxClock.  All other numbers   *)
(* are integers.                                                           *)
(*                                                                         *)
(* Maps.  A JavaScript Map iterates in insertion order, so the deck is a   *)
(* sequence of CardState records; a key `${hand}|${position}` is the pair  *)
(* <<hand, position>>.                                                     *)
(*                                                                         *)
(* Storage.  localStorage maps a key to <<>> (getItem returns null) or to  *)
(* <<text>>.  A text is a record whose json field tells what JSON.parse    *)
(* makes of it: "object" and "array" are what JSON.stringify writes for    *)
(* the Stats and for the deck; "invalid" is a text JSON.parse throws on,   *)
(* "null" and "number" are the texts null and 7.                           *)
(***************************************************************************)
EXTENDS Integers, Sequences, FiniteSets, TLC

VARIABLES
    deck,               \* srs.ts:74  let deck: Map<string, CardState> | null
    clock,              \* srs.ts:75  let clock = 0
    localStorage,       \* the two blobs under STORAGE_KEY and STATS_KEY
    ret,                \* the last operation called, what it returned, whether it threw
    idle,               \* deck and clock of a second session (another tab) over the
                        \* same localStorage; deck and clock are the running session's
    app                 \* App.tsx:41-49  the useState values of the mounted App

engineVars == <<deck, clock, localStorage>>
vars == <<deck, clock, localStorage, ret, idle, app>>

\* The largest clock value at which an answer for a known card is still recorded.
MaxClock == 5

STORAGE_KEY == "poker-srs-state"
STATS_KEY == "poker-srs-stats"

EaseFloor == 13
EaseDefault == 25
EaseBonus == 1
EasePenalty == 3
SecondInterval == 3
PoolSlack == 2
MasteredAt == 3

\* getAllCombos() of ../data/ranges: the closed catalog of identities, every hand
\* of RANGES at every position (32 * 4 combos); the model keeps two of them.
getAllCombos ==
    << [hand |-> "AA", position |-> "UTG"], [hand |-> "KK", position |-> "UTG"] >>

\* The hands and positions a caller may pass; ("72o", "UTG") is not in the catalog.
Hands == {"AA", "KK", "72o"}
Positions == {"UTG"}

Max2(a, b) == IF a >= b THEN a ELSE b

\* Math.round of a non-negative number given in tenths: half rounds up.
Round10(t) == (t + 5) \div 10

defaultStats ==
    [totalReviews |-> 0, correctReviews |-> 0, currentStreak |-> 0, bestStreak |-> 0]

(***************************************************************************)
(* JSON.stringify and JSON.parse of numbers: the decimal text of a number  *)
(* given in tenths, as a sign, the digits of its integer part and at most  *)
(* one digit after the point (none when the number is an integer).         *)
(***************************************************************************)
RECURSIVE Digits(_)
Digits(n) == IF n < 10 THEN <<n>> ELSE Append(Digits(n \div 10), n % 10)

RECURSIVE FromDigits(_)
FromDigits(ds) ==
    IF ds = <<>> THEN 0 ELSE 10 * FromDigits(SubSeq(ds, 1, Len(ds) - 1)) + ds[Len(ds)]

\* Mutant of NumberToString: the digit after the point is not written.
NumberToString_NoFraction(t) ==
    LET a == IF t < 0 THEN -t ELSE t
    IN [neg |-> t < 0, int |-> Digits(a \div 10), frac |-> <<>>]

NumberToString(t) ==
    LET a == IF t < 0 THEN -t ELSE t
    IN [neg |-> t < 0,
        int |-> Digits(a \div 10),
        frac |-> IF a % 10 = 0 THEN <<>> ELSE <<a % 10>>]

ParseNumber(txt) ==
    LET a == 10 * FromDigits(txt.int) + (IF txt.frac = <<>> THEN 0 ELSE txt.frac[1])
    IN IF txt.neg THEN -a ELSE a

\* An integer-valued field is written from, and read back to, whole units.
IntToString(n) == NumberToString(10 * n)
ParseInt(txt) == ParseNumber(txt) \div 10

StringifyCard(cs) ==
    [hand |-> cs.hand, position |-> cs.position,
     interval |-> IntToString(cs.interval),
     ease |-> NumberToString(cs.ease),
     repetitions |-> IntToString(cs.repetitions),
     due |-> IntToString(cs.due),
     lastSeen |-> IntToString(cs.lastSeen)]

ParseCard(o) ==
    [hand |-> o.hand, position |-> o.position,
     interval |-> ParseInt(o.interval),
     ease |-> ParseNumber(o.ease),
     repetitions |-> ParseInt(o.repetitions),
     due |-> ParseInt(o.due),
     lastSeen |-> ParseInt(o.lastSeen)]

StringifyStats(s) ==
    [json |-> "object",
     totalReviews |-> IntToString(s.totalReviews),
     correctReviews |-> IntToString(s.correctReviews),
     currentStreak |-> IntToString(s.currentStreak),
     bestStreak |-> IntToString(s.bestStreak)]

\* JSON.parse of a text that is not an object gives null or a number: the value
\* is held as the text itself, and IsObject tells it from a parsed object.
IsObject(v) == "json" \notin DOMAIN v

ParseStats(txt) ==
    IF txt.json = "object"
    THEN [totalReviews |-> ParseInt(txt.totalReviews),
          correctReviews |-> ParseInt(txt.correctReviews),
          currentStreak |-> ParseInt(txt.currentStreak),
          bestStreak |-> ParseInt(txt.bestStreak)]
    ELSE txt

StringifyDeck(values) ==
    [json |-> "array", items |-> [i \in 1..Len(values) |-> StringifyCard(values[i])]]

ParseDeck(txt) == [i \in 1..Len(txt.items) |-> ParseCard(txt.items[i])]

(***************************************************************************)
(* Map<string, CardState>, in insertion order.                             *)
(***************************************************************************)
comboKey(c) == <<c.hand, c.position>>

MapHas(map, key) == \E i \in 1..Len(map) : comboKey(map[i]) = key

MapGet(map, key) == map[CHOOSE i \in 1..Len(map) : comboKey(map[i]) = key]

MapSet(map, key, cs) ==
    IF MapHas(map, key)
    THEN [i \in 1..Len(map) |-> IF comboKey(map[i]) = key THEN cs ELSE map[i]]
    ELSE Append(map, cs)

\* The loop is run by halves, and the map after the first half is computed
\* (the size test reads it) before the second half starts, which keeps the
\* evaluation of a long array shallow.
RECURSIVE MapFromArray(_, _)
MapFromArray(arr, map) ==
    IF arr = <<>> THEN map
    ELSE IF Len(arr) = 1 THEN MapSet(map, comboKey(arr[1]), arr[1])
    ELSE LET half == Len(arr) \div 2
             first == MapFromArray(SubSeq(arr, 1, half), map)
         IN IF Len(first) < Len(map) THEN first
            ELSE MapFromArray(SubSeq(arr, half + 1, Len(arr)), first)

(***************************************************************************)
(* The engine.  Each operation is a function of the engine state           *)
(* s = [deck, clock, localStorage]; deck is [isNull, map].                 *)
(***************************************************************************)
NullDeck == [isNull |-> TRUE, map |-> <<>>]

\* srs.ts:28-34: JSON.parse throwing is caught; whatever it returns is returned.
loadStats(s) ==
    LET raw == s.localStorage[STATS_KEY]
    IN IF raw # <<>> /\ raw[1].json # "invalid" THEN ParseStats(raw[1]) ELSE defaultStats

saveStats(s, st) ==
    [s EXCEPT !.localStorage[STATS_KEY] = <<StringifyStats(st)>>]

\* Mutant of resetProgress: the in-memory deck and the clock are dropped too.
resetProgress_DropMemory(s) ==
    [s EXCEPT !.localStorage = [k \in {STORAGE_KEY, STATS_KEY} |-> <<>>],
              !.deck = NullDeck, !.clock = 0]

resetProgress(s) ==
    [s EXCEPT !.localStorage = [k \in {STORAGE_KEY, STATS_KEY} |-> <<>>]]

\* srs.ts:55-68: the try block throws when JSON.parse throws, when the value
\* parsed is not iterable (null, a number, a plain object) and when an element
\* is null (cs.hand); each is caught and the deck starts empty.
loadDeck(s) ==
    LET raw == s.localStorage[STORAGE_KEY]
    IN IF /\ raw # <<>>
          /\ raw[1].json = "array"
          /\ \A i \in 1..Len(raw[1].items) : IsObject(raw[1].items[i])
       THEN MapFromArray(ParseDeck(raw[1]), <<>>)
       ELSE <<>>

\* Mutant of saveDeck: the write merges with the blob in storage, an entry that
\* storage holds with a later lastSeen being kept.
saveDeck_Merge(s, map) ==
    LET stored == loadDeck(s)
        merged == [i \in 1..Len(map) |->
                     IF /\ MapHas(stored, comboKey(map[i]))
                        /\ MapGet(stored, comboKey(map[i])).lastSeen > map[i].lastSeen
                     THEN MapGet(stored, comboKey(map[i]))
                     ELSE map[i]]
    IN [s EXCEPT !.localStorage[STORAGE_KEY] = <<StringifyDeck(merged)>>]

saveDeck(s, map) ==
    [s EXCEPT !.localStorage[STORAGE_KEY] = <<StringifyDeck(map)>>]

defaultCard(c) ==
    [hand |-> c.hand, position |-> c.position,
     interval |-> 0, ease |-> EaseDefault, repetitions |-> 0, due |-> 0, lastSeen |-> -1]

\* Mutant of AddCombos: the has(key) test is missing, every combo is set to its
\* default entry.
RECURSIVE AddCombos_Overwrite(_, _)
AddCombos_Overwrite(map, combos) ==
    IF combos = <<>> THEN map
    ELSE LET c == Head(combos)
         IN AddCombos_Overwrite(MapSet(map, comboKey(c), defaultCard(c)), Tail(combos))

\* srs.ts:83-96: every combo missing from the deck gets a default entry.
RECURSIVE AddCombos(_, _)
AddCombos(map, combos) ==
    IF combos = <<>> THEN map
    ELSE LET c == Head(combos)
         IN AddCombos(IF MapHas(map, comboKey(c)) THEN map
                      ELSE MapSet(map, comboKey(c), defaultCard(c)),
                      Tail(combos))

\* Mutant of BootstrapClock: the loop is missing, the clock stays as it was.
BootstrapClock_None(values, c) == c

\* Mutant of BootstrapClock: only lastSeen is looked at, due is not.
RECURSIVE BootstrapClock_LastSeenOnly(_, _)
BootstrapClock_LastSeenOnly(values, c) ==
    IF values = <<>> THEN c
    ELSE LET cs == Head(values)
             c2 == IF cs.lastSeen >= c THEN cs.lastSeen + 1 ELSE c
         IN BootstrapClock_LastSeenOnly(Tail(values), c2)

\* Mutant of BootstrapClock: only due is looked at, lastSeen is not.
RECURSIVE BootstrapClock_DueOnly(_, _)
BootstrapClock_DueOnly(values, c) ==
    IF values = <<>> THEN c
    ELSE LET cs == Head(values)
             c1 == IF cs.due > c THEN cs.due ELSE c
         IN BootstrapClock_DueOnly(Tail(values), c1)

\* srs.ts:99-102: the clock after the loop over deck.values(), started at c.
\* The loop is run by halves, and the clock after the first half is computed
\* (the test reads it) before the second half starts.
RECURSIVE BootstrapClock(_, _)
BootstrapClock(values, c) ==
    IF values = <<>> THEN c
    ELSE IF Len(values) = 1
    THEN LET cs == values[1]
             c1 == IF cs.due > c THEN cs.due ELSE c
             c2 == IF cs.lastSeen >= c1 THEN cs.lastSeen + 1 ELSE c1
         IN c2
    ELSE LET half == Len(values) \div 2
             first == BootstrapClock(SubSeq(values, 1, half), c)
         IN IF first < c THEN first
            ELSE BootstrapClock(SubSeq(values, half + 1, Len(values)), first)

\* Mutant of ensureDeck: the deck is built from the catalog alone, each combo
\* taking its stored CardState when there is one.
ensureDeck_CatalogOnly(s) ==
    IF ~s.deck.isNull THEN s
    ELSE LET stored == loadDeck(s)
             map == [i \in 1..Len(getAllCombos) |->
                       IF MapHas(stored, comboKey(getAllCombos[i]))
                       THEN MapGet(stored, comboKey(getAllCombos[i]))
                       ELSE defaultCard(getAllCombos[i])]
         IN [s EXCEPT !.deck = [isNull |-> FALSE, map |-> map],
                      !.clock = BootstrapClock(map, s.clock)]

\* Mutant of ensureDeck: the early return is missing, every call loads again.
ensureDeck_AlwaysLoad(s) ==
    LET map == AddCombos(loadDeck(s), getAllCombos)
    IN [s EXCEPT !.deck = [isNull |-> FALSE, map |-> map],
                 !.clock = BootstrapClock(map, s.clock)]

ensureDeck(s) ==
    IF ~s.deck.isNull THEN s
    ELSE LET map == AddCombos(loadDeck(s), getAllCombos)
         IN [s EXCEPT !.deck = [isNull |-> FALSE, map |-> map],
                      !.clock = BootstrapClock(map, s.clock)]

\* Mutant of reloadDeck: the deck is dropped but the clock is not reset.
reloadDeck_KeepClock(s) == [s EXCEPT !.deck = NullDeck]

reloadDeck(s) == [s EXCEPT !.deck = NullDeck, !.clock = 0]


(***************************************************************************)
(* getNextCard, srs.ts:111-135.                                            *)
(***************************************************************************)
\* Array.prototype.sort with (a, b) => a.due - b.due: a stable sort by due.
RECURSIVE InsertByDue(_, _)
InsertByDue(sorted, c) ==
    IF sorted = <<>> THEN <<c>>
    ELSE IF Head(sorted).due <= c.due
         THEN <<Head(sorted)>> \o InsertByDue(Tail(sorted), c)
         ELSE <<c>> \o sorted

RECURSIVE SortByDue(_)
SortByDue(cards) ==
    IF cards = <<>> THEN <<>>
    ELSE InsertByDue(SortByDue(SubSeq(cards, 1, Len(cards) - 1)), cards[Len(cards)])

IsDue(c, now) == c.due <= now

\* Mutant of InWindow: the window reaches one tick further.
InWindow_Wider(c, minDue) == c.due <= minDue + PoolSlack + 1

\* Mutant of InWindow: only the entries that tie with the smallest due are kept.
InWindow_TiesOnly(c, minDue) == c.due = minDue

InWindow(c, minDue) == c.due <= minDue + PoolSlack

\* Mutant of pool: when nothing is due only the least-due entry is kept.
pool_LowestOnly(d) ==
    LET cards == d.deck.map
        now == d.clock
        dueCards == SelectSeq(cards, LAMBDA c : IsDue(c, now))
    IN IF Len(dueCards) > 0
       THEN LET sorted == SortByDue(dueCards)
                minDue == sorted[1].due
            IN SelectSeq(sorted, LAMBDA c : InWindow(c, minDue))
       ELSE <<SortByDue(cards)[1]>>

\* The pool the random index is drawn over, for a loaded engine state d.
pool(d) ==
    LET cards == d.deck.map
        now == d.clock
        dueCards == SelectSeq(cards, LAMBDA c : IsDue(c, now))
    IN IF Len(dueCards) > 0
       THEN LET sorted == SortByDue(dueCards)
                minDue == sorted[1].due
            IN SelectSeq(sorted, LAMBDA c : InWindow(c, minDue))
       ELSE LET sorted == SortByDue(cards)
                minDue == sorted[1].due
            IN SelectSeq(sorted, LAMBDA c : InWindow(c, minDue))

(***************************************************************************)
(* recordAnswer, srs.ts:138-181.                                           *)
(***************************************************************************)
\* Mutant of updateStats: bestStreak is compared with the streak before its increment.
updateStats_BestBefore(st, correct) ==
    LET total == st.totalReviews + 1
    IN IF correct
       THEN [totalReviews |-> total,
             correctReviews |-> st.correctReviews + 1,
             currentStreak |-> st.currentStreak + 1,
             bestStreak |-> IF st.currentStreak > st.bestStreak
                            THEN st.currentStreak ELSE st.bestStreak]
       ELSE [totalReviews |-> total,
             correctReviews |-> st.correctReviews,
             currentStreak |-> 0,
             bestStreak |-> st.bestStreak]

\* Mutant of updateStats: a miss clears bestStreak together with currentStreak.
updateStats_MissClearsBest(st, correct) ==
    LET total == st.totalReviews + 1
    IN IF correct
       THEN LET streak == st.currentStreak + 1
            IN [totalReviews |-> total,
                correctReviews |-> st.correctReviews + 1,
                currentStreak |-> streak,
                bestStreak |-> IF streak > st.bestStreak THEN streak ELSE st.bestStreak]
       ELSE [totalReviews |-> total,
             correctReviews |-> st.correctReviews,
             currentStreak |-> 0,
             bestStreak |-> 0]

updateStats(st, correct) ==
    LET total == st.totalReviews + 1
    IN IF correct
       THEN LET streak == st.currentStreak + 1
            IN [totalReviews |-> total,
                correctReviews |-> st.correctReviews + 1,
                currentStreak |-> streak,
                bestStreak |-> IF streak > st.bestStreak THEN streak ELSE st.bestStreak]
       ELSE [totalReviews |-> total,
             correctReviews |-> st.correctReviews,
             currentStreak |-> 0,
             bestStreak |-> st.bestStreak]

\* Mutant of sm2: ease is raised before the interval is computed from it.
sm2_EaseFirst(cs, correct) ==
    IF correct
    THEN LET reps == cs.repetitions + 1
             ease == Max2(EaseFloor, cs.ease + EaseBonus)
             interval == IF reps = 1 THEN 1
                         ELSE IF reps = 2 THEN SecondInterval
                         ELSE Round10(cs.interval * ease)
         IN [cs EXCEPT !.repetitions = reps, !.interval = interval, !.ease = ease]
    ELSE [cs EXCEPT !.repetitions = 0,
                    !.interval = 0,
                    !.ease = Max2(EaseFloor, cs.ease - EasePenalty)]

\* Mutant of sm2: a miss resets repetitions but leaves the interval as it was.
sm2_KeepInterval(cs, correct) ==
    IF correct
    THEN LET reps == cs.repetitions + 1
             interval == IF reps = 1 THEN 1
                         ELSE IF reps = 2 THEN SecondInterval
                         ELSE Round10(cs.interval * cs.ease)
         IN [cs EXCEPT !.repetitions = reps,
                       !.interval = interval,
                       !.ease = Max2(EaseFloor, cs.ease + EaseBonus)]
    ELSE [cs EXCEPT !.repetitions = 0,
                    !.ease = Max2(EaseFloor, cs.ease - EasePenalty)]

\* Mutant of sm2: a miss lowers ease without the floor.
sm2_NoFloor(cs, correct) ==
    IF correct
    THEN LET reps == cs.repetitions + 1
             interval == IF reps = 1 THEN 1
                         ELSE IF reps = 2 THEN SecondInterval
                         ELSE Round10(cs.interval * cs.ease)
         IN [cs EXCEPT !.repetitions = reps,
                       !.interval = interval,
                       !.ease = Max2(EaseFloor, cs.ease + EaseBonus)]
    ELSE [cs EXCEPT !.repetitions = 0,
                    !.interval = 0,
                    !.ease = cs.ease - EasePenalty]

\* Mutant of sm2: a miss takes one repetition off, it does not clear them.
sm2_MissDecrements(cs, correct) ==
    IF correct
    THEN LET reps == cs.repetitions + 1
             interval == IF reps = 1 THEN 1
                         ELSE IF reps = 2 THEN SecondInterval
                         ELSE Round10(cs.interval * cs.ease)
         IN [cs EXCEPT !.repetitions = reps,
                       !.interval = interval,
                       !.ease = Max2(EaseFloor, cs.ease + EaseBonus)]
    ELSE [cs EXCEPT !.repetitions = Max2(0, cs.repetitions - 1),
                    !.interval = 0,
                    !.ease = Max2(EaseFloor, cs.ease - EasePenalty)]

\* Mutant of sm2: the multiplicative rule is used from the second correct
\* answer on.
sm2_GrowFromSecond(cs, correct) ==
    IF correct
    THEN LET reps == cs.repetitions + 1
             interval == IF reps = 1 THEN 1
                         ELSE Round10(cs.interval * cs.ease)
         IN [cs EXCEPT !.repetitions = reps,
                       !.interval = interval,
                       !.ease = Max2(EaseFloor, cs.ease + EaseBonus)]
    ELSE [cs EXCEPT !.repetitions = 0,
                    !.interval = 0,
                    !.ease = Max2(EaseFloor, cs.ease - EasePenalty)]

\* srs.ts:159-174: the SM-2 step on repetitions, interval and ease.
sm2(cs, correct) ==
    IF correct
    THEN LET reps == cs.repetitions + 1
             interval == IF reps = 1 THEN 1
                         ELSE IF reps = 2 THEN SecondInterval
                         ELSE Round10(cs.interval * cs.ease)
         IN [cs EXCEPT !.repetitions = reps,
                       !.interval = interval,
                       !.ease = Max2(EaseFloor, cs.ease + EaseBonus)]
    ELSE [cs EXCEPT !.repetitions = 0,
                    !.interval = 0,
                    !.ease = Max2(EaseFloor, cs.ease - EasePenalty)]

\* Mutant of schedule: due is counted from the tick before the increment.
schedule_BeforeTick(cs, now) ==
    [cs EXCEPT !.due = (now - 1) + cs.interval, !.lastSeen = now]

\* srs.ts:176-177
schedule(cs, now) == [cs EXCEPT !.due = now + cs.interval, !.lastSeen = now]

\* Mutant of recordAnswer: the clock is advanced before the identity is looked up.
recordAnswer_ClockFirst(s, hand, position, correct) ==
    LET d0 == ensureDeck(s)
        d == [d0 EXCEPT !.clock = d0.clock + 1]
        key == <<hand, position>>
    IN IF ~MapHas(d.deck.map, key) THEN d
       ELSE LET now == d.clock
                d2 == saveStats(d, updateStats(loadStats(d), correct))
                cs == schedule(sm2(MapGet(d.deck.map, key), correct), now)
                map == MapSet(d.deck.map, key, cs)
                d3 == [d2 EXCEPT !.deck.map = map]
            IN saveDeck(d3, map)

\* Mutant of recordAnswer: the card is stamped with the next tick but the clock
\* itself is not advanced.
recordAnswer_NoTick(s, hand, position, correct) ==
    LET d == ensureDeck(s)
        key == <<hand, position>>
    IN IF ~MapHas(d.deck.map, key) THEN d
       ELSE LET now == d.clock + 1
                d2 == saveStats(d, updateStats(loadStats(d), correct))
                cs == schedule(sm2(MapGet(d.deck.map, key), correct), now)
                map == MapSet(d.deck.map, key, cs)
                d3 == [d2 EXCEPT !.deck.map = map]
            IN saveDeck(d3, map)

\* Mutant of recordAnswer: lastSeen is stamped on every entry of the deck.
recordAnswer_StampAll(s, hand, position, correct) ==
    LET d == ensureDeck(s)
        key == <<hand, position>>
    IN IF ~MapHas(d.deck.map, key) THEN d
       ELSE LET now == d.clock + 1
                d1 == [d EXCEPT !.clock = now]
            IN IF ~IsObject(loadStats(d1)) THEN d1
               ELSE LET d2 == saveStats(d1, updateStats(loadStats(d1), correct))
                        cs == schedule(sm2(MapGet(d.deck.map, key), correct), now)
                        set == MapSet(d.deck.map, key, cs)
                        map == [i \in 1..Len(set) |-> [set[i] EXCEPT !.lastSeen = now]]
                        d3 == [d2 EXCEPT !.deck.map = map]
                    IN saveDeck(d3, map)

\* Mutant of recordAnswer: only the updated card is written, into the deck
\* that storage holds.
recordAnswer_SaveCardOnly(s, hand, position, correct) ==
    LET d == ensureDeck(s)
        key == <<hand, position>>
    IN IF ~MapHas(d.deck.map, key) THEN d
       ELSE LET now == d.clock + 1
                d1 == [d EXCEPT !.clock = now]
            IN IF ~IsObject(loadStats(d1)) THEN d1
               ELSE LET d2 == saveStats(d1, updateStats(loadStats(d1), correct))
                        cs == schedule(sm2(MapGet(d.deck.map, key), correct), now)
                        map == MapSet(d.deck.map, key, cs)
                        d3 == [d2 EXCEPT !.deck.map = map]
                    IN saveDeck(d3, MapSet(loadDeck(d3), key, cs))

\* Mutant of recordAnswer: the deck is persisted before the card is updated.
recordAnswer_SaveFirst(s, hand, position, correct) ==
    LET d == ensureDeck(s)
        key == <<hand, position>>
    IN IF ~MapHas(d.deck.map, key) THEN d
       ELSE LET now == d.clock + 1
                d1 == [d EXCEPT !.clock = now]
            IN IF ~IsObject(loadStats(d1)) THEN d1
               ELSE LET d2 == saveStats(d1, updateStats(loadStats(d1), correct))
                        cs == schedule(sm2(MapGet(d.deck.map, key), correct), now)
                        map == MapSet(d.deck.map, key, cs)
                        d3 == saveDeck(d2, d.deck.map)
                    IN [d3 EXCEPT !.deck.map = map]

\* srs.ts:147-148: stats.totalReviews++ throws a TypeError when loadStats
\* returned null, or a number (the module is strict code); the call ends there,
\* after clock++.
recordAnswerThrows(s, hand, position) ==
    LET d == ensureDeck(s)
    IN MapHas(d.deck.map, <<hand, position>>) /\ ~IsObject(loadStats(d))

recordAnswer(s, hand, position, correct) ==
    LET d == ensureDeck(s)
        key == <<hand, position>>
    IN IF ~MapHas(d.deck.map, key) THEN d
       ELSE LET now == d.clock + 1
                d1 == [d EXCEPT !.clock = now]
            IN IF ~IsObject(loadStats(d1)) THEN d1
               ELSE LET d2 == saveStats(d1, updateStats(loadStats(d1), correct))
                        cs == schedule(sm2(MapGet(d.deck.map, key), correct), now)
                        map == MapSet(d.deck.map, key, cs)
                        d3 == [d2 EXCEPT !.deck.map = map]
                    IN saveDeck(d3, map)

\* recordAnswer when localStorage.setItem throws (QuotaExceededError) at the
\* write of the blob under key: at saveStats (srs.ts:156) the call ends after
\* clock++; at saveDeck (srs.ts:180) it ends with the Stats persisted and the
\* card updated in memory.  For a known identity and Stats that are an object.
recordAnswerQuota(s, hand, position, correct, key) ==
    LET d == ensureDeck(s)
        id == <<hand, position>>
        now == d.clock + 1
        d1 == [d EXCEPT !.clock = now]
    IN IF key = STATS_KEY THEN d1
       ELSE LET d2 == saveStats(d1, updateStats(loadStats(d1), correct))
                cs == schedule(sm2(MapGet(d.deck.map, id), correct), now)
            IN [d2 EXCEPT !.deck.map = MapSet(d.deck.map, id, cs)]

(***************************************************************************)
(* getMasteryPercent, srs.ts:184-189: Math.round((mastered / n) * 100) on  *)
(* IEEE 754 doubles.  A double that is not negative is [sig, frac]: sig is *)
(* its significand as an integer, written in limbs of LimbBits bits, the   *)
(* lowest first, and the value is that integer divided by 2^frac.  A       *)
(* significand has at most MantissaBits bits; each operation rounds its    *)
(* exact result to the nearest such number, ties to the even significand.  *)
(***************************************************************************)
MantissaBits == 53

LimbBits == 18

Limb == 2^LimbBits

RECURSIVE FromBits(_)
FromBits(bits) == IF bits = <<>> THEN 0 ELSE Head(bits) + 2 * FromBits(Tail(bits))

RECURSIVE IntBits(_)
IntBits(x) == IF x = 0 THEN 0 ELSE 1 + IntBits(x \div 2)

\* The number of bits of the integer in limbs (its highest limb is not 0).
BitLength(limbs) ==
    IF limbs = <<>> THEN 0
    ELSE (Len(limbs) - 1) * LimbBits + IntBits(limbs[Len(limbs)])

\* Bit i of the integer in limbs, bit 0 being the lowest.
BitAt(limbs, i) ==
    IF i \div LimbBits + 1 > Len(limbs) THEN 0
    ELSE (limbs[i \div LimbBits + 1] \div 2^(i % LimbBits)) % 2

RECURSIVE IncLimbs(_)
IncLimbs(limbs) ==
    IF limbs = <<>> THEN <<1>>
    ELSE IF Head(limbs) + 1 < Limb THEN <<Head(limbs) + 1>> \o Tail(limbs)
         ELSE <<0>> \o IncLimbs(Tail(limbs))

\* The integer in limbs times k (k small), carry added in.
RECURSIVE MulLimbs(_, _, _)
MulLimbs(limbs, k, carry) ==
    IF limbs = <<>> THEN (IF carry = 0 THEN <<>> ELSE <<carry>>)
    ELSE LET p == Head(limbs) * k + carry
         IN <<p % Limb>> \o MulLimbs(Tail(limbs), k, p \div Limb)

\* The integer in limbs divided by 2^k, 0 < k < LimbBits, the remainder dropped.
ShiftRight(limbs, k) ==
    LET n == Len(limbs)
        s == [j \in 1..n |->
                (limbs[j] \div 2^k)
                   + (IF j < n THEN (limbs[j + 1] % 2^k) * 2^(LimbBits - k) ELSE 0)]
    IN IF s[n] = 0 THEN SubSeq(s, 1, n - 1) ELSE s

\* The exact value x rounded to MantissaBits significant bits (fewer than
\* LimbBits bits are dropped: the operand was a double times 100).
RoundToDouble(x) ==
    LET drop == BitLength(x.sig) - MantissaBits
    IN IF drop <= 0 THEN x
       ELSE LET kept == ShiftRight(x.sig, drop)
                dropped == x.sig[1] % 2^drop
                half == 2^(drop - 1)
                up == dropped > half \/ (dropped = half /\ kept[1] % 2 = 1)
            IN [sig |-> IF up THEN IncLimbs(kept) ELSE kept, frac |-> x.frac - drop]

\* The number of zero bits before the first one bit in the expansion of r / d.
RECURSIVE LeadingZeros(_, _)
LeadingZeros(r, d) == IF 2 * r >= d THEN 0 ELSE 1 + LeadingZeros(2 * r, d)

\* m / n for integers 0 <= m <= n, n > 0.  m / (2 * n) is below 1; the long
\* division gives its first MantissaBits bits from the first one bit on, in
\* three limbs, and the remainder decides the rounding.
DoubleDivide(m, n) ==
    IF m = 0 THEN [sig |-> <<>>, frac |-> 0]
    ELSE LET d == 2 * n
             z == LeadingZeros(m, d)
             r0 == m * 2^z
             t1 == r0 * 2^(MantissaBits - 2 * LimbBits)
             t2 == (t1 % d) * Limb
             t3 == (t2 % d) * Limb
             sig == <<t3 \div d, t2 \div d, t1 \div d>>
             rem == t3 % d
             up == 2 * rem > d \/ (2 * rem = d /\ sig[1] % 2 = 1)
         IN [sig |-> IF up THEN IncLimbs(sig) ELSE sig,
             frac |-> z + MantissaBits - 1]

DoubleTimes100(x) ==
    RoundToDouble([sig |-> MulLimbs(x.sig, 100, 0), frac |-> x.frac])

\* Math.round of a double that is not negative: the integer part, plus one when
\* the fraction is a half or more.
MathRound(x) ==
    LET len == BitLength(x.sig)
        whole == IF len > x.frac
                 THEN FromBits([k \in 1..(len - x.frac) |-> BitAt(x.sig, x.frac + k - 1)])
                 ELSE 0
        half == IF x.frac >= 1 THEN BitAt(x.sig, x.frac - 1) ELSE 0
    IN whole + half

\* Mutant of masteryOf: a card counts as mastered at exactly MasteredAt
\* repetitions, not from there on.
masteryOf_ExactlyAt(map) ==
    LET n == Len(map)
        mastered == Len(SelectSeq(map, LAMBDA c : c.repetitions = MasteredAt))
    IN MathRound(DoubleTimes100(DoubleDivide(mastered, n)))

masteryOf(map) ==
    LET n == Len(map)
        mastered == Len(SelectSeq(map, LAMBDA c : c.repetitions >= MasteredAt))
    IN MathRound(DoubleTimes100(DoubleDivide(mastered, n)))

(***************************************************************************)
(* The App's handlers, by their effect on the engine.  drawCard calls      *)
(* getNextCard, getMasteryPercent and getStats: the first load, if any, is *)
(* its only effect.  handleReset calls resetProgress, reloadDeck, drawCard.*)
(***************************************************************************)
drawCard(s) == ensureDeck(ensureDeck(s))

handleReset(s) == drawCard(reloadDeck(resetProgress(s)))

(***************************************************************************)
(* The state machine.                                                      *)
(***************************************************************************)
Engine == [deck |-> deck, clock |-> clock, localStorage |-> localStorage]

\* A session that has not loaded a deck (srs.ts:74-75).
NoSession == [deck |-> NullDeck, clock |-> 0]

\* The useState values of App (App.tsx:41-49) where no App is mounted over the
\* engine.  card and feedback are <<>> for null, else a one-element sequence.
NoApp ==
    [card |-> <<>>, feedback |-> <<>>, mastery |-> 0, stats |-> defaultStats,
     showConfirmReset |-> FALSE]

\* ret.threw is "none" when the call returned, else the name of the exception.
Returns(op, val) ==
    /\ ret' = [op |-> op, val |-> val, threw |-> "none"]
    /\ idle' = idle
    /\ app' = app

Throws(op, val, err) ==
    /\ ret' = [op |-> op, val |-> val, threw |-> err]
    /\ idle' = idle
    /\ app' = app

Becomes(s) ==
    /\ deck' = s.deck
    /\ clock' = s.clock
    /\ localStorage' = s.localStorage

Init ==
    /\ deck = NullDeck
    /\ clock = 0
    /\ localStorage = [k \in {STORAGE_KEY, STATS_KEY} |-> <<>>]
    /\ ret = [op |-> "init", val |-> <<>>, threw |-> "none"]
    /\ idle = NoSession
    /\ app = NoApp

GetNextCard ==
    LET d == ensureDeck(Engine)
        p == pool(d)
    IN \E idx \in 1..Len(p) :
          /\ Becomes(d)
          /\ Returns("getNextCard", <<p[idx]>>)

RecordAnswer(hand, position, correct) ==
    LET d == ensureDeck(Engine)
    IN /\ MapHas(d.deck.map, <<hand, position>>) => d.clock < MaxClock
       /\ Becomes(recordAnswer(Engine, hand, position, correct))
       /\ IF recordAnswerThrows(Engine, hand, position)
          THEN Throws("recordAnswer", <<hand, position, correct>>, "TypeError")
          ELSE Returns("recordAnswer", <<hand, position, correct>>)

GetMasteryPercent ==
    LET d == ensureDeck(Engine)
    IN /\ Becomes(d)
       /\ Returns("getMasteryPercent", <<masteryOf(d.deck.map)>>)

GetStats ==
    /\ Returns("getStats", <<loadStats(Engine)>>)
    /\ UNCHANGED engineVars

ResetProgress ==
    /\ Becomes(resetProgress(Engine))
    /\ Returns("resetProgress", <<>>)

ReloadDeck ==
    /\ Becomes(reloadDeck(Engine))
    /\ Returns("reloadDeck", <<>>)

\* The App's reset handler (its effect on the engine).
HandleReset ==
    /\ Becomes(handleReset(Engine))
    /\ Returns("handleReset", <<>>)

Next ==
    \/ GetNextCard
    \/ \E hand \in Hands, position \in Positions, correct \in BOOLEAN :
          RecordAnswer(hand, position, correct)
    \/ GetMasteryPercent
    \/ GetStats
    \/ ResetProgress
    \/ ReloadDeck
    \/ HandleReset

Spec == Init /\ [][Next]_vars

(***************************************************************************)
(* getNextCard as a function of the deck and the clock: the deck is given  *)
(* with four entries whose due values are drawn from 5..SelMaxDue, the     *)
(* clock from 4..SelMaxDue + 1, and getNextCard is called on it.           *)
(***************************************************************************)
SelMaxDue == 9

SelHands == <<"AA", "KK", "QQ", "JJ">>

SelDues == 5..SelMaxDue

SelInit ==
    /\ \E dues \in [1..Len(SelHands) -> SelDues] :
          deck = [isNull |-> FALSE,
                  map |-> [i \in 1..Len(SelHands) |->
                             [defaultCard([hand |-> SelHands[i], position |-> "UTG"])
                                 EXCEPT !.due = dues[i]]]]
    /\ clock \in 4..(SelMaxDue + 1)
    /\ localStorage = [k \in {STORAGE_KEY, STATS_KEY} |-> <<>>]
    /\ ret = [op |-> "init", val |-> <<>>, threw |-> "none"]
    /\ idle = NoSession
    /\ app = NoApp

SelNext == GetNextCard

SelSpec == SelInit /\ [][SelNext]_vars

(***************************************************************************)
(* The engine over storage it did not write, and over storage that refuses *)
(* a write.  The two blobs start with any of: nothing, a text that is not  *)
(* JSON, the texts null and 7, a plain object where an array is expected,  *)
(* an array holding null, or a well-formed blob; recordAnswer may also end *)
(* at a setItem that throws.                                               *)
(***************************************************************************)
FaultMaxClock == 2

InvalidText == [json |-> "invalid"]
NullText == [json |-> "null"]
NumberText == [json |-> "number"]

\* A deck and Stats as the engine writes them: one answer recorded.
WrittenCard ==
    schedule(sm2(defaultCard([hand |-> "AA", position |-> "UTG"]), TRUE), 1)

WrittenStats == updateStats(defaultStats, TRUE)

StatsBlobs ==
    { <<>>, <<InvalidText>>, <<NullText>>, <<NumberText>>,
      <<StringifyStats(WrittenStats)>> }

DeckBlobs ==
    { <<>>, <<InvalidText>>, <<NullText>>, <<NumberText>>,
      <<StringifyStats(WrittenStats)>>,
      <<[json |-> "array", items |-> <<StringifyCard(WrittenCard), NullText>>]>>,
      <<StringifyDeck(<<WrittenCard>>)>> }

FaultInit ==
    /\ deck = NullDeck
    /\ clock = 0
    /\ \E sb \in StatsBlobs, db \in DeckBlobs :
          localStorage = [k \in {STORAGE_KEY, STATS_KEY} |->
                            IF k = STATS_KEY THEN sb ELSE db]
    /\ ret = [op |-> "init", val |-> <<>>, threw |-> "none"]
    /\ idle = NoSession
    /\ app = NoApp

\* The answers still recorded: the clock and totalReviews are both capped (a
\* reload after a refused deck write takes the clock back).
FaultBounded(d) ==
    /\ d.clock < FaultMaxClock
    /\ IsObject(loadStats(d)) => loadStats(d).totalReviews < FaultMaxClock

FaultRecordAnswer(hand, position, correct) ==
    LET d == ensureDeck(Engine)
    IN /\ MapHas(d.deck.map, <<hand, position>>) => FaultBounded(d)
       /\ Becomes(recordAnswer(Engine, hand, position, correct))
       /\ IF recordAnswerThrows(Engine, hand, position)
          THEN Throws("recordAnswer", <<hand, position, correct>>, "TypeError")
          ELSE Returns("recordAnswer", <<hand, position, correct>>)

\* recordAnswer for a known identity, ended by setItem throwing at the blob key.
SetItemThrows(hand, position, correct, key) ==
    LET d == ensureDeck(Engine)
    IN /\ MapHas(d.deck.map, <<hand, position>>)
       /\ FaultBounded(d)
       /\ ~recordAnswerThrows(Engine, hand, position)
       /\ Becomes(recordAnswerQuota(Engine, hand, position, correct, key))
       /\ Throws("recordAnswer", <<hand, position, correct>>, "QuotaExceededError")

FaultNext ==
    \/ GetNextCard
    \/ \E hand \in Hands, position \in Positions, correct \in BOOLEAN :
          FaultRecordAnswer(hand, position, correct)
    \/ \E hand \in Hands, position \in Positions, correct \in BOOLEAN,
           key \in {STATS_KEY, STORAGE_KEY} :
          SetItemThrows(hand, position, correct, key)
    \/ GetMasteryPercent
    \/ GetStats
    \/ ReloadDeck

FaultSpec == FaultInit /\ [][FaultNext]_vars

(***************************************************************************)
(* The engine started over a deck blob written earlier, possibly for       *)
(* another catalog: any sequence of up to three entries with distinct      *)
(* identities among AA, KK and 72o (not in the catalog), each never seen   *)
(* or answered once at a tick of 1..LoadMaxSeen (no two at the same tick), *)
(* in any order; or no blob.                                               *)
(***************************************************************************)
\* The largest tick of a stored entry, and the largest clock at which an answer
\* for a known card is still recorded.
LoadMaxSeen == 2

StoredCombos == {[hand |-> h, position |-> "UTG"] : h \in Hands}

StoredStates ==
    {defaultCard(c) : c \in StoredCombos}
       \cup {schedule(sm2(defaultCard(c), correct), now) :
                c \in StoredCombos, correct \in BOOLEAN, now \in 1..LoadMaxSeen}

StoredDecks ==
    {arr \in UNION {[1..n -> StoredStates] : n \in 0..Cardinality(StoredCombos)} :
        \A i, j \in 1..Len(arr) :
           i # j => /\ arr[i].hand # arr[j].hand
                    /\ arr[i].lastSeen = -1 \/ arr[i].lastSeen # arr[j].lastSeen}

LoadInit ==
    /\ deck = NullDeck
    /\ clock = 0
    /\ \E db \in {<<>>} \cup {<<StringifyDeck(arr)>> : arr \in StoredDecks} :
          localStorage = [k \in {STORAGE_KEY, STATS_KEY} |->
                            IF k = STORAGE_KEY THEN db ELSE <<>>]
    /\ ret = [op |-> "init", val |-> <<>>, threw |-> "none"]
    /\ idle = NoSession
    /\ app = NoApp

LoadRecordAnswer(hand, position, correct) ==
    LET d == ensureDeck(Engine)
    IN /\ MapHas(d.deck.map, <<hand, position>>) => d.clock <= LoadMaxSeen
       /\ Becomes(recordAnswer(Engine, hand, position, correct))
       /\ Returns("recordAnswer", <<hand, position, correct>>)

LoadNext ==
    \/ GetNextCard
    \/ \E hand \in Hands, position \in Positions, correct \in BOOLEAN :
          LoadRecordAnswer(hand, position, correct)
    \/ GetMasteryPercent
    \/ ReloadDeck

LoadSpec == LoadInit /\ [][LoadNext]_vars
(***************************************************************************)
(* getMasteryPercent as a function of the deck: the deck blob holds the    *)
(* catalog's entries followed by entries of identities no longer in the    *)
(* catalog, up to MasteryMaxDeck in all; the first m of them have been     *)
(* answered correctly three times, the others never.                       *)
(***************************************************************************)
MasteryMaxDeck == 40

StaleHands == <<"72o", "83o", "94o", "T2o", "J3o", "Q4o", "K5o", "32o", "42o", "52o">>

StalePositions == <<"UTG", "Middle", "Cutoff", "Blinds">>

MasteryCombo(i) ==
    IF i <= Len(getAllCombos) THEN getAllCombos[i]
    ELSE LET k == i - Len(getAllCombos) - 1
         IN [hand |-> StaleHands[(k \div Len(StalePositions)) + 1],
             position |-> StalePositions[(k % Len(StalePositions)) + 1]]

\* The CardState of c after correct answers at the ticks now + 1, now + 2, now + 3.
MasteredCard(c, now) ==
    LET c1 == schedule(sm2(defaultCard(c), TRUE), now + 1)
        c2 == schedule(sm2(c1, TRUE), now + 2)
    IN schedule(sm2(c2, TRUE), now + 3)

MasteryDeck(n, m) ==
    [i \in 1..n |-> IF i <= m THEN MasteredCard(MasteryCombo(i), 3 * (i - 1))
                    ELSE defaultCard(MasteryCombo(i))]

MasteryInit ==
    /\ deck = NullDeck
    /\ clock = 0
    /\ \E n \in Len(getAllCombos)..MasteryMaxDeck :
          \E m \in 0..n :
             localStorage = [k \in {STORAGE_KEY, STATS_KEY} |->
                               IF k = STORAGE_KEY
                               THEN <<StringifyDeck(MasteryDeck(n, m))>> ELSE <<>>]
    /\ ret = [op |-> "init", val |-> <<>>, threw |-> "none"]
    /\ idle = NoSession
    /\ app = NoApp

MasteryNext == GetMasteryPercent

MasterySpec == MasteryInit /\ [][MasteryNext]_vars

(***************************************************************************)
(* Short sessions with resets and reloads: every engine operation from     *)
(* fresh storage, answers being recorded up to clock ResetMaxClock.        *)
(***************************************************************************)
ResetMaxClock == 3

ResetRecordAnswer(hand, position, correct) ==
    LET d == ensureDeck(Engine)
    IN /\ MapHas(d.deck.map, <<hand, position>>) => d.clock < ResetMaxClock
       /\ Becomes(recordAnswer(Engine, hand, position, correct))
       /\ Returns("recordAnswer", <<hand, position, correct>>)

ResetNext ==
    \/ GetNextCard
    \/ \E hand \in Hands, position \in Positions, correct \in BOOLEAN :
          ResetRecordAnswer(hand, position, correct)
    \/ GetMasteryPercent
    \/ GetStats
    \/ ResetProgress
    \/ ReloadDeck

ResetSpec == Init /\ [][ResetNext]_vars

(***************************************************************************)
(* Two sessions over one localStorage.  Each tab has its own module state  *)
(* (deck, clock); both have mounted on fresh storage, so each has loaded   *)
(* the default deck (App calls drawCard on mount).  A step is an operation *)
(* of the running session, or the other session becoming the running one.  *)
(***************************************************************************)
\* The largest number of answers the two sessions record together.
TwoMaxAnswers == 3

\* The module state of a tab that has mounted over the storage store.
Mounted(store) ==
    LET s == ensureDeck([deck |-> NullDeck, clock |-> 0, localStorage |-> store])
    IN [deck |-> s.deck, clock |-> s.clock]

TwoInit ==
    /\ localStorage = [k \in {STORAGE_KEY, STATS_KEY} |-> <<>>]
    /\ deck = Mounted(localStorage).deck
    /\ clock = Mounted(localStorage).clock
    /\ idle = Mounted(localStorage)
    /\ app = NoApp
    /\ ret = [op |-> "init", val |-> <<>>, threw |-> "none"]

SwitchSession ==
    /\ deck' = idle.deck
    /\ clock' = idle.clock
    /\ idle' = [deck |-> deck, clock |-> clock]
    /\ UNCHANGED <<localStorage, app>>
    /\ ret' = [op |-> "switchSession", val |-> <<>>, threw |-> "none"]

TwoRecordAnswer(hand, position, correct) ==
    /\ MapHas(ensureDeck(Engine).deck.map, <<hand, position>>) =>
          clock + idle.clock < TwoMaxAnswers
    /\ Becomes(recordAnswer(Engine, hand, position, correct))
    /\ Returns("recordAnswer", <<hand, position, correct>>)

TwoNext ==
    \/ SwitchSession
    \/ \E hand \in Hands, position \in Positions, correct \in BOOLEAN :
          TwoRecordAnswer(hand, position, correct)
    \/ GetNextCard
    \/ GetStats

TwoSpec == TwoInit /\ [][TwoNext]_vars

(***************************************************************************)
(* Drills: answers only, from fresh storage, up to clock DrillMaxClock.    *)
(***************************************************************************)
DrillMaxClock == 9

DrillRecordAnswer(hand, position, correct) ==
    /\ ensureDeck(Engine).clock < DrillMaxClock
    /\ Becomes(recordAnswer(Engine, hand, position, correct))
    /\ Returns("recordAnswer", <<hand, position, correct>>)

DrillNext ==
    \E c \in 1..Len(getAllCombos), correct \in BOOLEAN :
       DrillRecordAnswer(getAllCombos[c].hand, getAllCombos[c].position, correct)

DrillSpec == Init /\ [][DrillNext]_vars

(***************************************************************************)
(* The App component over the engine (App.tsx:40-78).  app.card holds the  *)
(* hand and position of the CardState that getNextCard returned (the App   *)
(* keeps the reference and reads only these two fields); the handlers      *)
(* drawCard, handleAction and handleReset are called as the buttons call   *)
(* them, handleAction also while feedback is shown.  ret.val of a draw is  *)
(* the card getNextCard returned; ret.val of handleAction is the sequence  *)
(* of argument lists of the recordAnswer calls it made.  The clock is      *)
(* capped at AppMaxClock.                                                  *)
(***************************************************************************)
AppMaxClock == 4

\* App.tsx:14  const ACTIONS (a reserved word here)
AppActions == {"Fold", "Call", "Raise", "3-Bet"}

\* data/ranges getCorrectActions: the actions of the hand's RANGES entry at the
\* position, ['Fold'] for a hand that has no entry.  Of RANGES the model keeps
\* the entries of getAllCombos.
getCorrectActions(hand, position) ==
    IF hand \in {"AA", "KK"} /\ position = "UTG" THEN {"Raise"} ELSE {"Fold"}

\* Mutant of handleActionReturnsEarly: feedback is not looked at.
handleActionReturnsEarly_CardOnly(c, f) == c = <<>>

\* App.tsx:63  if (!card || feedback) return;
handleActionReturnsEarly(c, f) == c = <<>> \/ f # <<>>

AppInit ==
    /\ deck = NullDeck
    /\ clock = 0
    /\ localStorage = [k \in {STORAGE_KEY, STATS_KEY} |-> <<>>]
    /\ ret = [op |-> "init", val |-> <<>>, threw |-> "none"]
    /\ idle = NoSession
    /\ app = [NoApp EXCEPT !.stats = loadStats(Engine)]

\* App.tsx:51-56 drawCard on the engine state s, which becomes the engine state;
\* op names the handler that called it.
AppDraw(op, s, confirm) ==
    LET d == ensureDeck(s)
        p == pool(d)
    IN \E idx \in 1..Len(p) :
          /\ Becomes(drawCard(s))
          /\ app' = [card |-> <<[hand |-> p[idx].hand, position |-> p[idx].position]>>,
                     feedback |-> <<>>,
                     mastery |-> masteryOf(d.deck.map),
                     stats |-> loadStats(d),
                     showConfirmReset |-> confirm]
          /\ ret' = [op |-> op, val |-> <<p[idx]>>, threw |-> "none"]
          /\ idle' = idle

\* App.tsx:58-60: the effect of the first render.
AppMount ==
    /\ ret.op = "init"
    /\ AppDraw("mount", Engine, app.showConfirmReset)

\* The "Suivant" button (App.tsx:196), rendered while feedback is shown.
AppDrawCard ==
    /\ app.feedback # <<>>
    /\ AppDraw("drawCard", Engine, app.showConfirmReset)

\* App.tsx:62-70 handleAction.
AppHandleAction(action) ==
    /\ ret.op # "init"
    /\ idle' = idle
    /\ IF handleActionReturnsEarly(app.card, app.feedback)
       THEN /\ UNCHANGED <<engineVars, app>>
            /\ ret' = [op |-> "handleAction", val |-> <<>>, threw |-> "none"]
       ELSE LET c == app.card[1]
                expected == getCorrectActions(c.hand, c.position)
                correct == action \in expected
                s1 == recordAnswer(Engine, c.hand, c.position, correct)
                d1 == ensureDeck(s1)
            IN /\ ensureDeck(Engine).clock < AppMaxClock
               /\ Becomes(d1)
               /\ app' = [app EXCEPT
                             !.feedback = <<[correct |-> correct, chosen |-> action,
                                            expected |-> expected]>>,
                             !.stats = loadStats(s1),
                             !.mastery = masteryOf(d1.deck.map)]
               /\ ret' = [op |-> "handleAction",
                          val |-> << <<c.hand, c.position, correct>> >>,
                          threw |-> "none"]

\* App.tsx:213  onClick={() => setShowConfirmReset(true)}
AppShowConfirmReset ==
    /\ ret.op # "init"
    /\ ~app.showConfirmReset
    /\ app' = [app EXCEPT !.showConfirmReset = TRUE]
    /\ ret' = [op |-> "showConfirmReset", val |-> <<>>, threw |-> "none"]
    /\ UNCHANGED <<engineVars, idle>>

\* App.tsx:230  onClick={() => setShowConfirmReset(false)}
AppCancelReset ==
    /\ app.showConfirmReset
    /\ app' = [app EXCEPT !.showConfirmReset = FALSE]
    /\ ret' = [op |-> "cancelReset", val |-> <<>>, threw |-> "none"]
    /\ UNCHANGED <<engineVars, idle>>

\* App.tsx:72-77 handleReset, the confirm button of the dialog.
AppHandleReset ==
    /\ app.showConfirmReset
    /\ AppDraw("handleReset", reloadDeck(resetProgress(Engine)), FALSE)

AppNext ==
    \/ AppMount
    \/ AppDrawCard
    \/ \E action \in AppActions : AppHandleAction(action)
    \/ AppShowConfirmReset
    \/ AppCancelReset
    \/ AppHandleReset

AppSpec == AppInit /\ [][AppNext]_vars

(***************************************************************************)
(* Vocabulary of the properties.  A step is told by ret': the operation    *)
(* that made it and its arguments.                                         *)
(***************************************************************************)
Engine1 == [deck |-> deck', clock |-> clock', localStorage |-> localStorage']

\* The identities a caller may pass to recordAnswer.
Identities == Hands \X Positions

Answered(id, correct) ==
    ret'.op = "recordAnswer" /\ ret'.val = <<id[1], id[2], correct>>

\* The deck the operation works on: the one in memory, or else the one it loads.
Known(id) == MapHas(ensureDeck(Engine).deck.map, id)
Before(id) == MapGet(ensureDeck(Engine).deck.map, id)
After(id) == MapGet(deck'.map, id)

\* The state reached after the last call was a recorded answer for a known card.
JustAnswered(correct) ==
    /\ ret.op = "recordAnswer"
    /\ ret.val[3] = correct
    /\ ~deck.isNull
    /\ MapHas(deck.map, <<ret.val[1], ret.val[2]>>)

LastAnswered == MapGet(deck.map, <<ret.val[1], ret.val[2]>>)

\* C1: a correct answer for a known card adds 1 to repetitions, sets interval to 1
\* at repetitions 1, to 3 at repetitions 2 and to round(old interval * old ease)
\* after that, and raises ease by 0.1 afterwards; from a fresh card (ease 2.5)
\* three correct answers give the intervals 1, 3 and round(3 * 2.7) = 8.
C1_CorrectAnswer ==
    [][\A id \in Identities :
          (Answered(id, TRUE) /\ Known(id)) =>
             LET old == Before(id)
                 new == After(id)
             IN /\ new.repetitions = old.repetitions + 1
                /\ new.repetitions = 1 => new.interval = 1
                /\ new.repetitions = 2 => new.interval = 3
                /\ new.repetitions > 2 =>
                      new.interval = (old.interval * old.ease + 5) \div 10
                /\ new.ease = old.ease + 1
                /\ (old.repetitions = 0 /\ old.ease = 25) => new.interval = 1
                /\ (old.repetitions = 1 /\ old.ease = 26) => new.interval = 3
                /\ (old.repetitions = 2 /\ old.ease = 27 /\ old.interval = 3)
                      => new.interval = 8
      ]_vars

\* The third correct answer in a row on a card that started at ease 2.5.
C1_Witness ==
    /\ JustAnswered(TRUE)
    /\ LastAnswered.repetitions = 3
    /\ LastAnswered.interval = 8
    /\ LastAnswered.ease = 28

\* C2: an incorrect answer for a known card sets repetitions and interval to 0,
\* lowers ease to max(1.3, ease - 0.3), and leaves the card due at once: its due
\* is the clock after the increment.
C2_IncorrectAnswer ==
    [][\A id \in Identities :
          (Answered(id, FALSE) /\ Known(id)) =>
             LET old == Before(id)
                 new == After(id)
             IN /\ new.repetitions = 0
                /\ new.interval = 0
                /\ new.ease = (IF old.ease - 3 < 13 THEN 13 ELSE old.ease - 3)
                /\ new.due = clock'
                /\ clock' = ensureDeck(Engine).clock + 1
      ]_vars

\* A miss on a card that had been answered correctly twice before.
C2_Witness ==
    /\ JustAnswered(FALSE)
    /\ LastAnswered.repetitions = 0
    /\ LastAnswered.interval = 0
    /\ LastAnswered.ease = 24
    /\ LastAnswered.due = clock
    /\ clock = 3


\* Every CardState the engine holds: in memory and in the persisted deck.
StoredCards ==
    LET raw == localStorage[STORAGE_KEY]
    IN IF raw = <<>> THEN <<>> ELSE ParseDeck(raw[1])

HeldCards ==
    {deck.map[i] : i \in 1..Len(deck.map)} \cup {StoredCards[i] : i \in 1..Len(StoredCards)}

\* C3: from a fresh deck, every card always has ease >= 1.3; a correct answer
\* raises ease by exactly 0.1, whatever its value (no cap), and an incorrect one
\* lowers it by 0.3 but not below 1.3.
C3_EaseFloor ==
    /\ [](\A cs \in HeldCards : cs.ease >= 13)
    /\ [][\A id \in Identities, correct \in BOOLEAN :
             (Answered(id, correct) /\ Known(id)) =>
                LET old == Before(id).ease
                    new == After(id).ease
                IN /\ correct => new = old + 1
                   /\ (~correct /\ old >= 16) => new = old - 3
                   /\ (~correct /\ old < 16) => new = 13
         ]_vars

\* The fifth miss in a row on one card: 2.5, 2.2, 1.9, 1.6, 1.3 and then the floor.
C3_Witness ==
    /\ JustAnswered(FALSE)
    /\ LastAnswered.ease = 13
    /\ LastAnswered.lastSeen = 5
    /\ loadStats(Engine).totalReviews = 5
    /\ loadStats(Engine).correctReviews = 0
    /\ \E i \in 1..Len(deck.map) : deck.map[i].lastSeen = -1

\* C4 as stated: recordAnswer for an identity with no entry leaves the clock, the
\* in-memory deck and both blobs unchanged.
C4_AsStated ==
    [][\A id \in Identities, correct \in BOOLEAN :
          (Answered(id, correct) /\ ~Known(id)) =>
             UNCHANGED <<clock, deck, localStorage>>
      ]_vars

\* C4, amended: recordAnswer for an identity with no entry never touches storage;
\* on a loaded deck it leaves the clock and the in-memory deck unchanged too, and
\* on an unloaded deck its only effect is the load (the deck is materialized and
\* the clock re-derived from it).
C4_UnknownIdentity ==
    [][\A id \in Identities, correct \in BOOLEAN :
          (Answered(id, correct) /\ ~Known(id)) =>
             /\ UNCHANGED localStorage
             /\ ~deck.isNull => UNCHANGED <<clock, deck>>
             /\ deck.isNull =>
                   /\ ~deck'.isNull
                   /\ deck'.map = AddCombos(StoredCards, getAllCombos)
                   /\ \A cs \in HeldCards : clock' >= cs.due /\ clock' > cs.lastSeen
      ]_vars

\* An unknown identity reported on a loaded deck with progress.
C4_Witness ==
    /\ ret.op = "recordAnswer"
    /\ ~deck.isNull
    /\ ~MapHas(deck.map, <<ret.val[1], ret.val[2]>>)
    /\ clock = 2
    /\ loadStats(Engine).totalReviews = 2

\* The clock a load derives from the persisted deck.
RECURSIVE SetMax(_)
SetMax(S) ==
    LET x == CHOOSE y \in S : TRUE
    IN IF S = {x} THEN x ELSE Max2(x, SetMax(S \ {x}))

StoredClock ==
    SetMax({0} \cup {StoredCards[i].due : i \in 1..Len(StoredCards)}
               \cup {StoredCards[i].lastSeen + 1 : i \in 1..Len(StoredCards)})

\* C5: the clock goes up by exactly 1 on every recordAnswer for a known identity;
\* getStats and resetProgress never change it, getNextCard and getMasteryPercent
\* do not change it on a loaded deck; otherwise it moves only by reloadDeck (to 0)
\* and by the load that follows (to the value derived from the persisted deck).
C5_Clock ==
    [][/\ \A id \in Identities, correct \in BOOLEAN :
             (Answered(id, correct) /\ Known(id)) =>
                /\ ~deck.isNull => clock' = clock + 1
                /\ deck.isNull => clock' = StoredClock + 1
       /\ ret'.op \in {"getStats", "resetProgress"} => clock' = clock
       /\ (ret'.op \in {"getNextCard", "getMasteryPercent"} /\ ~deck.isNull)
             => clock' = clock
       /\ (ret'.op \in {"getNextCard", "getMasteryPercent"} /\ deck.isNull)
             => clock' = StoredClock
       /\ ret'.op = "reloadDeck" => clock' = 0
      ]_vars

\* An answer recorded on a deck that was loaded two answers ago.
C5_Witness ==
    /\ JustAnswered(TRUE)
    /\ clock = 3
    /\ LastAnswered.lastSeen = 3
    /\ loadStats(Engine).totalReviews = 3

\* C6: a recordAnswer for a known identity updates the persisted Stats once:
\* totalReviews + 1; if correct, correctReviews + 1, currentStreak + 1 and
\* bestStreak = max(bestStreak, currentStreak); if incorrect, currentStreak = 0
\* and correctReviews and bestStreak unchanged.
C6_Stats ==
    [][\A id \in Identities, correct \in BOOLEAN :
          (Answered(id, correct) /\ Known(id)) =>
             LET old == loadStats(Engine)
                 new == loadStats(Engine1)
             IN /\ new.totalReviews = old.totalReviews + 1
                /\ correct =>
                      /\ new.correctReviews = old.correctReviews + 1
                      /\ new.currentStreak = old.currentStreak + 1
                      /\ new.bestStreak = Max2(old.bestStreak, new.currentStreak)
                /\ ~correct =>
                      /\ new.currentStreak = 0
                      /\ new.correctReviews = old.correctReviews
                      /\ new.bestStreak = old.bestStreak
      ]_vars

\* Two correct answers and then a miss.
C6_Witness ==
    /\ JustAnswered(FALSE)
    /\ loadStats(Engine) =
          [totalReviews |-> 3, correctReviews |-> 2, currentStreak |-> 0, bestStreak |-> 2]

\* C7: on a loaded deck, getNextCard, getMasteryPercent and getStats change
\* nothing: not the deck, not the clock, not the two blobs.
C7_ReadsArePure ==
    [][(ret'.op \in {"getNextCard", "getMasteryPercent", "getStats"} /\ ~deck.isNull)
          => UNCHANGED <<deck, clock, localStorage>>
      ]_vars

\* getNextCard called on a loaded deck in which one card is scheduled ahead.
C7_Witness ==
    /\ ret.op = "getNextCard"
    /\ ~deck.isNull
    /\ clock = 2
    /\ \E i \in 1..Len(deck.map) : deck.map[i].due > clock


\* The deck of a first load: one default entry per catalog identity.
FreshDeck ==
    << [hand |-> "AA", position |-> "UTG", interval |-> 0, ease |-> 25,
        repetitions |-> 0, due |-> 0, lastSeen |-> -1],
       [hand |-> "KK", position |-> "UTG", interval |-> 0, ease |-> 25,
        repetitions |-> 0, due |-> 0, lastSeen |-> -1] >>

ZeroStats ==
    [totalReviews |-> 0, correctReviews |-> 0, currentStreak |-> 0, bestStreak |-> 0]

IsReset(s) ==
    /\ ~s.deck.isNull
    /\ s.deck.map = FreshDeck
    /\ s.clock = 0
    /\ loadStats(s) = ZeroStats

\* C9: from every reachable state, resetProgress, reloadDeck and the next load
\* leave every CardState at its defaults (interval 0, ease 2.5, repetitions 0,
\* due 0, lastSeen -1), the clock at 0 and the four Stats fields at 0; the App's
\* reset handler has exactly this effect.
C9_ResetClearsAll ==
    /\ [](/\ IsReset(ensureDeck(reloadDeck(resetProgress(Engine))))
          /\ IsReset(handleReset(Engine)))
    /\ [][ret'.op = "handleReset" => IsReset(Engine1)]_vars

\* A state with three recorded answers, from which the reset sequence starts over.
C9_Witness ==
    /\ ~deck.isNull
    /\ clock = 3
    /\ loadStats(Engine).totalReviews = 3
    /\ \E i \in 1..Len(deck.map) : deck.map[i].repetitions = 2
    /\ IsReset(handleReset(Engine))
    /\ IsReset(ensureDeck(reloadDeck(resetProgress(Engine))))

\* C10: whenever the deck is loaded and a persisted deck exists, dropping the
\* in-memory state and loading again gives back the same deck, every field of
\* every entry, and the same Stats; and the Stats read back after an answer are
\* the Stats that answer computed.
C10_RoundTrip ==
    /\ []((~deck.isNull /\ localStorage[STORAGE_KEY] # <<>>) =>
             LET r == ensureDeck(reloadDeck(Engine))
             IN /\ r.deck = deck
                /\ loadStats(r) = loadStats(Engine))
    /\ [][\A id \in Identities, correct \in BOOLEAN :
             (Answered(id, correct) /\ Known(id)) =>
                LET old == loadStats(Engine)
                    streak == IF correct THEN old.currentStreak + 1 ELSE 0
                IN loadStats(Engine1) =
                      [totalReviews |-> old.totalReviews + 1,
                       correctReviews |-> old.correctReviews + (IF correct THEN 1 ELSE 0),
                       currentStreak |-> streak,
                       bestStreak |-> Max2(old.bestStreak, streak)]
         ]_vars

\* A deck read back from storage after three answers: the clock (11) is the one a
\* load derives, the card and the Stats are as they were saved.
C10_Witness ==
    /\ ret.op = "getNextCard"
    /\ ~deck.isNull
    /\ clock = 11
    /\ \E i \in 1..Len(deck.map) :
          /\ deck.map[i].repetitions = 3
          /\ deck.map[i].ease = 28
          /\ deck.map[i].interval = 8
          /\ deck.map[i].lastSeen = 3
    /\ loadStats(Engine).totalReviews = 3


\* The due values of the entries that are due, and the smallest of them.
DueValues == {deck.map[i].due : i \in {j \in 1..Len(deck.map) : deck.map[j].due <= clock}}

MinDueValue == CHOOSE m \in DueValues : \A d \in DueValues : m <= d

Eligible(cs) == cs.due <= clock /\ cs.due <= MinDueValue + 2

\* The entries getNextCard draws from with a uniform index, as a set.
Drawable == LET p == pool(ensureDeck(Engine)) IN {p[i] : i \in 1..Len(p)}

WellFormedStats ==
    LET raw == localStorage[STATS_KEY]
    IN raw # <<>> /\ raw[1].json = "object"

WellFormedDeck ==
    LET raw == localStorage[STORAGE_KEY]
    IN /\ raw # <<>>
       /\ raw[1].json = "array"
       /\ \A i \in 1..Len(raw[1].items) : "json" \notin DOMAIN raw[1].items[i]

CatalogIds == {<<getAllCombos[i].hand, getAllCombos[i].position>> : i \in 1..Len(getAllCombos)}

\* C11 as stated: whatever the two blobs hold (nothing, a text that does not
\* parse, or a parsed value of the wrong shape), no call raises to the caller
\* because of it, a load of the deck gives the fresh deck, getStats returns the
\* default Stats and recordAnswer updates the Stats from the defaults.
C11_AsStated ==
    [][/\ ret'.threw # "TypeError"
       /\ (ret'.op = "getStats" /\ ~WellFormedStats) => ret'.val[1] = ZeroStats
       /\ (ret'.op \in {"getNextCard", "getMasteryPercent"}
              /\ deck.isNull /\ ~WellFormedDeck) =>
                (~deck'.isNull /\ deck'.map = FreshDeck /\ clock' = 0)
       /\ \A id \in CatalogIds, correct \in BOOLEAN :
             (Answered(id, correct) /\ ret'.threw = "none" /\ ~WellFormedStats) =>
                LET one == IF correct THEN 1 ELSE 0
                IN loadStats(Engine1) =
                      [totalReviews |-> 1, correctReviews |-> one,
                       currentStreak |-> one, bestStreak |-> one]
      ]_vars


(***************************************************************************)
(* The deck after a load.                                                  *)
(***************************************************************************)
KeysOf(map) == [i \in 1..Len(map) |-> <<map[i].hand, map[i].position>>]

CountOf(map, id) == Cardinality({i \in 1..Len(map) : KeysOf(map)[i] = id})

StoredIds == {KeysOf(StoredCards)[i] : i \in 1..Len(StoredCards)}

Loads == deck.isNull /\ ~deck'.isNull

\* C12: in a loaded deck every catalog identity has exactly one CardState (and
\* no identity has two); a load keeps every stored entry as stored and gives
\* every catalog identity absent from storage the default entry (interval 0,
\* ease 2.5, repetitions 0, due 0, lastSeen -1), the card answered by the loading
\* call apart; on a loaded deck recordAnswer, getNextCard and getMasteryPercent
\* leave the identities of the deck, and their order, as they are.
C12_OneEntryPerIdentity ==
    /\ [](~deck.isNull =>
             /\ \A id \in CatalogIds : CountOf(deck.map, id) = 1
             /\ \A id \in Identities : CountOf(deck.map, id) <= 1)
    /\ [][/\ Loads =>
                /\ \A id \in StoredIds \cup CatalogIds : CountOf(deck'.map, id) = 1
                /\ Len(deck'.map) = Cardinality(StoredIds \cup CatalogIds)
                /\ \A i \in 1..Len(deck'.map) :
                      LET cs == deck'.map[i]
                          id == KeysOf(deck'.map)[i]
                      IN \/ /\ ret'.op = "recordAnswer"
                            /\ <<ret'.val[1], ret'.val[2]>> = id
                         \/ id \in StoredIds /\ cs = MapGet(StoredCards, id)
                         \/ /\ id \notin StoredIds
                            /\ cs = [hand |-> id[1], position |-> id[2],
                                     interval |-> 0, ease |-> 25, repetitions |-> 0,
                                     due |-> 0, lastSeen |-> -1]
          /\ (~deck.isNull
                 /\ ret'.op \in {"recordAnswer", "getNextCard", "getMasteryPercent"})
                => KeysOf(deck'.map) = KeysOf(deck.map)
         ]_vars

\* A first load over a blob that holds only KK, answered at tick 2, and 72o: AA
\* has got its default entry after them, KK and 72o are as stored.
C12_Witness ==
    /\ ret.op = "getNextCard"
    /\ ~deck.isNull
    /\ KeysOf(StoredCards) = << <<"KK", "UTG">>, <<"72o", "UTG">> >>
    /\ KeysOf(deck.map) = << <<"KK", "UTG">>, <<"72o", "UTG">>, <<"AA", "UTG">> >>
    /\ deck.map[1] = StoredCards[1] /\ deck.map[1].lastSeen = 2
    /\ deck.map[2] = StoredCards[2]
    /\ deck.map[3].lastSeen = -1 /\ deck.map[3].ease = 25 /\ deck.map[3].due = 0


(***************************************************************************)
(* Mastery.                                                                *)
(***************************************************************************)
MasteredCount(map) == Cardinality({i \in 1..Len(map) : map[i].repetitions >= 3})

\* round(100 * m / n), a half rounded up, in exact arithmetic.
RoundedPercent(m, n) == (200 * m + n) \div (2 * n)

\* C13 as stated: for every non-empty deck, getMasteryPercent returns the integer
\* round(100 * (number of entries with repetitions >= 3) / (number of entries)),
\* which lies in 0..100.
C13_AsStated ==
    ret.op = "getMasteryPercent" =>
       /\ ret.val[1] \in 0..100
       /\ ret.val[1] = RoundedPercent(MasteredCount(deck.map), Len(deck.map))

\* C14: on a fixed deck, a correct answer never lowers getMasteryPercent: on
\* every recordAnswer(id, true) step the deck keeps its size, and the percentage
\* of the deck after the step is at least the percentage of the deck the call
\* worked on.
C14_MasteryMonotonic ==
    [][(ret'.op = "recordAnswer" /\ ret'.val[3] = TRUE) =>
          LET before == ensureDeck(Engine).deck.map
          IN /\ Len(deck'.map) = Len(before)
             /\ masteryOf(deck'.map) >= masteryOf(before)
      ]_vars

\* The third correct answer in a row on one of the two cards: mastery went from
\* 0 to 50, and the next correct answer on that card keeps it there.
C14_Witness ==
    /\ JustAnswered(TRUE)
    /\ LastAnswered.repetitions = 3
    /\ masteryOf(deck.map) = 50
    /\ masteryOf(recordAnswer(Engine, ret.val[1], ret.val[2], TRUE).deck.map) = 50

\* C15: after recordAnswer for a known card, that card has lastSeen equal to the
\* clock (which the call has incremented) and due equal to the clock plus its new
\* interval; every card that has been seen, in memory and in storage, has
\* due >= lastSeen and due = lastSeen + interval.
C15_DueAndLastSeen ==
    /\ \A correct \in BOOLEAN :
          JustAnswered(correct) =>
             /\ LastAnswered.lastSeen = clock
             /\ LastAnswered.due = clock + LastAnswered.interval
    /\ \A cs \in HeldCards :
          cs.lastSeen # -1 =>
             /\ cs.due >= cs.lastSeen
             /\ cs.due = cs.lastSeen + cs.interval

\* The second correct answer on a card, given at tick 2: due at 2 + 3.
C15_Witness ==
    /\ JustAnswered(TRUE)
    /\ clock = 2
    /\ LastAnswered.interval = 3
    /\ LastAnswered.lastSeen = 2
    /\ LastAnswered.due = 5

\* C16: correctReviews <= totalReviews and currentStreak <= bestStreak always;
\* every step that is not a reset either leaves the stats blob as it is, or
\* totalReviews and correctReviews do not decrease and bestStreak becomes the
\* larger of its old value and the new currentStreak, so that (being 0 with
\* currentStreak after a reset) it is the largest value currentStreak has taken
\* since, and a miss leaves it as it is.
C16_StatsInvariants ==
    /\ [](LET st == loadStats(Engine)
          IN /\ st.correctReviews <= st.totalReviews
             /\ st.currentStreak <= st.bestStreak
             /\ st.currentStreak >= 0)
    /\ [][ret'.op \notin {"resetProgress", "handleReset"} =>
             \/ localStorage'[STATS_KEY] = localStorage[STATS_KEY]
             \/ LET old == loadStats(Engine)
                    new == loadStats(Engine1)
                IN /\ new.totalReviews >= old.totalReviews
                   /\ new.correctReviews >= old.correctReviews
                   /\ new.bestStreak >= old.bestStreak
                   /\ new.bestStreak = Max2(old.bestStreak, new.currentStreak)
         ]_vars

\* Two correct answers, a miss and a correct answer: the streak is 1, the best 2.
C16_Witness ==
    /\ JustAnswered(TRUE)
    /\ loadStats(Engine) =
          [totalReviews |-> 4, correctReviews |-> 3, currentStreak |-> 1, bestStreak |-> 2]


(***************************************************************************)
(* getNextCard when nothing is due.                                        *)
(***************************************************************************)
\* The due values of all entries, and the smallest of them.
AllDueValues == {deck.map[i].due : i \in 1..Len(deck.map)}

GlobalMinDue == CHOOSE m \in AllDueValues : \A d \in AllDueValues : m <= d

LoadedClock(map) ==
    SetMax({0} \cup {map[i].due : i \in 1..Len(map)}
               \cup {map[i].lastSeen + 1 : i \in 1..Len(map)})

\* The entries of map in every order.
Orderings(map) ==
    {[i \in 1..Len(map) |-> map[f[i]]] :
        f \in {g \in [1..Len(map) -> 1..Len(map)] :
                 \A i, j \in 1..Len(map) : g[i] = g[j] => i = j}}

AllDefault(map) ==
    \A i \in 1..Len(map) : map[i].due = 0 /\ map[i].lastSeen = -1

C19_Persisted ==
    [][\A id \in Identities, correct \in BOOLEAN :
          (Answered(id, correct) /\ Known(id) /\ ret'.threw = "none") =>
             /\ localStorage'[STORAGE_KEY] # <<>>
             /\ loadDeck(Engine1) = deck'.map
             /\ Len(deck'.map) = Len(ensureDeck(Engine).deck.map)
             /\ After(id) # Before(id)
             /\ MapGet(loadDeck(Engine1), id) = After(id)
             /\ After(id).lastSeen = clock'
             /\ localStorage'[STATS_KEY] # <<>>
             /\ loadStats(Engine1) = updateStats(loadStats(ensureDeck(Engine)), correct)
      ]_vars

\* A stored deck of three entries, one of them (72o|UTG) no longer in the
\* catalog, after a correct answer for AA|UTG: the blob holds all of them with
\* the updated AA|UTG, and the stats blob holds one correct review.
C19_Witness ==
    /\ JustAnswered(TRUE)
    /\ ret.val[1] = "AA"
    /\ localStorage[STORAGE_KEY] # <<>>
    /\ StoredCards = deck.map
    /\ Len(StoredCards) >= 3
    /\ \E i \in 1..Len(StoredCards) : StoredCards[i].hand = "72o"
    /\ MapGet(StoredCards, <<"AA", ret.val[2]>>).lastSeen = clock
    /\ loadStats(Engine).totalReviews = 1
    /\ loadStats(Engine).correctReviews = 1


(***************************************************************************)
(* recordAnswer seen from the caller when a step of it fails.              *)
(***************************************************************************)
\* The four effects of recordAnswer on the state the call works on (the deck
\* in memory, or else the one it loads), as the caller can observe them.
ClockAdvanced == clock' # ensureDeck(Engine).clock

StatsPersisted == localStorage'[STATS_KEY] # localStorage[STATS_KEY]

CardUpdated == deck'.map # ensureDeck(Engine).deck.map

DeckPersisted == localStorage'[STORAGE_KEY] # localStorage[STORAGE_KEY]

\* C20: recordAnswer is atomic for the caller: every call for a held identity,
\* also one in which the stats read or a write to storage fails, ends with all
\* four effects (clock advance, Stats persisted, CardState updated, deck
\* persisted) visible or with none of them.
C20_AsStated ==
    [][\A id \in Identities, correct \in BOOLEAN :
          (Answered(id, correct) /\ Known(id)) =>
             \/ ClockAdvanced /\ StatsPersisted /\ CardUpdated /\ DeckPersisted
             \/ ~ClockAdvanced /\ ~StatsPersisted /\ ~CardUpdated /\ ~DeckPersisted
      ]_vars


(***************************************************************************)
(* What recordAnswer leaves alone in the deck.                             *)
(***************************************************************************)
KeySet(map) == {KeysOf(map)[i] : i \in 1..Len(map)}

\* C21: recordAnswer for a held identity changes only that identity's
\* CardState: the deck has the same keys and as many entries as before, every
\* other entry is the same in every field, and the matched entry keeps its hand
\* and position; the persisted deck shows the same.
C21_OnlyMatchedCard ==
    [][\A id \in Identities, correct \in BOOLEAN :
          (Answered(id, correct) /\ Known(id) /\ ret'.threw = "none") =>
             LET before == ensureDeck(Engine).deck.map
             IN /\ Len(deck'.map) = Len(before)
                /\ KeySet(deck'.map) = KeySet(before)
                /\ \A other \in KeySet(before) \ {id} :
                      /\ MapGet(deck'.map, other) = MapGet(before, other)
                      /\ MapGet(loadDeck(Engine1), other) = MapGet(before, other)
                /\ After(id).hand = Before(id).hand
                /\ After(id).position = Before(id).position
                /\ After(id) # Before(id)
      ]_vars

\* KK|UTG has just been answered in a deck that also holds an entry answered
\* earlier (at a tick before the current one) and a stale identity.
C21_Witness ==
    /\ \E correct \in BOOLEAN : JustAnswered(correct)
    /\ ret.val[1] = "KK"
    /\ Len(deck.map) >= 3
    /\ MapHas(deck.map, <<"72o", "UTG">>)
    /\ MapHas(deck.map, <<"AA", "UTG">>)
    /\ MapGet(deck.map, <<"AA", "UTG">>).lastSeen \in 1..(clock - 1)
    /\ MapGet(deck.map, <<"KK", "UTG">>).lastSeen = clock


(***************************************************************************)
(* Stored entries whose identity the catalog no longer has.                *)
(***************************************************************************)
StaleKeys(map) == KeySet(map) \ CatalogIds

\* The entries the selection rule of getNextCard admits in the current state.
Admitted(cs) ==
    IF DueValues # {} THEN Eligible(cs) ELSE cs.due <= GlobalMinDue + 2

\* C22: a load never drops a stored entry whose identity is not in the catalog:
\* the entry is in the deck after the load, as stored, and stays there; it is
\* drawn by getNextCard whenever the selection rule admits it; the percentage
\* getMasteryPercent returns has the number of all entries, stale ones
\* included, as its denominator; and recordAnswer writes it back to storage.
C22_StaleEntriesKept ==
    /\ [](~deck.isNull =>
             \A i \in 1..Len(deck.map) :
                (comboKey(deck.map[i]) \notin CatalogIds /\ Admitted(deck.map[i]))
                   => deck.map[i] \in Drawable)
    /\ [][
          /\ Loads =>
                (\A k \in StaleKeys(StoredCards) :
                    /\ MapHas(deck'.map, k)
                    /\ (~Answered(k, TRUE) /\ ~Answered(k, FALSE)) =>
                          MapGet(deck'.map, k) = MapGet(StoredCards, k))
          /\ (~deck.isNull /\ ~deck'.isNull) =>
                StaleKeys(deck.map) \subseteq KeySet(deck'.map)
          /\ ret'.op = "getMasteryPercent" =>
                ret'.val[1] = RoundedPercent(MasteredCount(deck'.map),
                                             Cardinality(CatalogIds)
                                                + Cardinality(StaleKeys(deck'.map)))
          /\ (ret'.op = "recordAnswer" /\ Known(<<ret'.val[1], ret'.val[2]>>)) =>
                (\A k \in StaleKeys(deck'.map) :
                    /\ MapHas(loadDeck(Engine1), k)
                    /\ MapGet(loadDeck(Engine1), k) = MapGet(deck'.map, k))
         ]_vars

\* The stale 72o|UTG, stored as a default entry, has been drawn by getNextCard
\* from a deck of three.
C22_Witness ==
    /\ ret.op = "getNextCard"
    /\ ret.val[1].hand = "72o"
    /\ Len(deck.map) = 3
    /\ StaleKeys(deck.map) = {<<"72o", "UTG">>}
    /\ StaleKeys(StoredCards) = {<<"72o", "UTG">>}


(***************************************************************************)
(* resetProgress without reloadDeck.                                       *)
(***************************************************************************)
BlobsRemoved(store) == store[STORAGE_KEY] = <<>> /\ store[STATS_KEY] = <<>>

\* C23: resetProgress removes the deck blob and the stats blob and leaves the
\* in-memory deck and the clock exactly as they were; the reads that follow it
\* leave a loaded deck and the clock as they were too, and getStats right
\* after it returns the four fields at 0.
C23_ResetFrame ==
    [][
       /\ ret'.op = "resetProgress" =>
             /\ BlobsRemoved(localStorage')
             /\ deck' = deck
             /\ clock' = clock
             /\ loadStats(Engine1) = ZeroStats
       /\ (ret.op = "resetProgress" /\ ret'.op = "getStats") =>
             /\ ret'.val[1] = ZeroStats
             /\ UNCHANGED engineVars
       /\ (ret.op = "resetProgress" /\ ~deck.isNull
               /\ ret'.op \in {"getNextCard", "getMasteryPercent"}) =>
             /\ deck' = deck
             /\ clock' = clock
             /\ BlobsRemoved(localStorage')
      ]_vars

\* resetProgress after two recorded answers: the blobs are gone, the deck in
\* memory still holds the card answered at tick 2 and the clock is still 2.
C23_Witness ==
    /\ ret.op = "resetProgress"
    /\ BlobsRemoved(localStorage)
    /\ ~deck.isNull
    /\ clock = 2
    /\ \E i \in 1..Len(deck.map) : deck.map[i].lastSeen = 2
    /\ loadStats(Engine) = ZeroStats


(***************************************************************************)
(* Two sessions writing the same blobs.                                    *)
(***************************************************************************)
\* C24 as stated: after a session's recordAnswer the persisted deck is that
\* session's in-memory deck and the persisted Stats are that session's own, the
\* other session's persisted updates being lost: the blob counts the reviews
\* this session has recorded (its clock, both sessions having mounted on fresh
\* storage).
C24_AsStated ==
    [][\A id \in Identities, correct \in BOOLEAN :
          (Answered(id, correct) /\ Known(id)) =>
             /\ loadDeck(Engine1) = deck'.map
             /\ loadStats(Engine1).totalReviews = clock'
      ]_vars

\* C24, amended: after a session's recordAnswer the persisted deck is exactly
\* that session's in-memory deck, whatever the blob held before, so every other
\* entry is persisted as this session has it and a card update the other
\* session persisted is gone from storage; the Stats are read from storage
\* within the call, so the persisted Stats are the ones persisted before
\* (the other session's reviews included) with this answer applied, and
\* totalReviews counts the answers of both sessions.
C24_LastWriteWins ==
    [][\A id \in Identities, correct \in BOOLEAN :
          (Answered(id, correct) /\ Known(id)) =>
             /\ loadDeck(Engine1) = deck'.map
             /\ \A k \in KeySet(deck.map) \ {id} :
                   MapGet(loadDeck(Engine1), k) = MapGet(deck.map, k)
             /\ loadStats(Engine1) = updateStats(loadStats(Engine), correct)
             /\ loadStats(Engine1).totalReviews = clock' + idle.clock
      ]_vars

\* The other session has answered AA|UTG and persisted it; the running session,
\* which mounted before that, has just answered KK|UTG: storage holds AA|UTG as
\* a default entry again, and two reviews.
C24_Witness ==
    /\ \E correct \in BOOLEAN : JustAnswered(correct)
    /\ ret.val[1] = "KK"
    /\ clock = 1
    /\ idle.clock = 1
    /\ MapGet(idle.deck.map, <<"AA", "UTG">>).lastSeen = 1
    /\ MapGet(StoredCards, <<"AA", "UTG">>).lastSeen = -1
    /\ MapGet(StoredCards, <<"KK", "UTG">>).lastSeen = 1
    /\ loadStats(Engine).totalReviews = 2


(***************************************************************************)
(* repetitions as a count of consecutive correct answers.                  *)
(***************************************************************************)
AnsweredAny(id) == Answered(id, TRUE) \/ Answered(id, FALSE)

\* C25: repetitions counts the correct answers recorded for the card since its
\* last miss or its creation: it is 0 in a default entry, a correct answer adds
\* one, a miss sets it to 0, and no other step changes it (a load takes it from
\* storage, a default entry starting at 0); and in every card held, in memory
\* or in storage, repetitions 0 goes with interval 0, 1 with 1 and 2 with 3.
C25_ConsecutiveCorrect ==
    /\ [](\A cs \in HeldCards :
             /\ cs.repetitions >= 0
             /\ cs.repetitions = 0 => cs.interval = 0
             /\ cs.repetitions = 1 => cs.interval = 1
             /\ cs.repetitions = 2 => cs.interval = 3
             /\ cs.lastSeen = -1 => cs.repetitions = 0)
    /\ [][
          /\ \A id \in Identities, correct \in BOOLEAN :
                (Answered(id, correct) /\ Known(id)) =>
                   After(id).repetitions =
                      IF correct THEN Before(id).repetitions + 1 ELSE 0
          /\ (~deck.isNull /\ ~deck'.isNull) =>
                (\A k \in KeySet(deck.map) :
                    ~AnsweredAny(k) =>
                       MapGet(deck'.map, k).repetitions = MapGet(deck.map, k).repetitions)
          /\ Loads =>
                (\A k \in KeySet(deck'.map) :
                    ~AnsweredAny(k) =>
                       MapGet(deck'.map, k).repetitions =
                          IF MapHas(StoredCards, k)
                          THEN MapGet(StoredCards, k).repetitions
                          ELSE 0)
         ]_vars

\* Two correct answers and then a miss on one card: repetitions went 1, 2, 0 and
\* the interval 1, 3, 0.
C25_Witness ==
    /\ JustAnswered(FALSE)
    /\ clock = 3
    /\ LastAnswered.lastSeen = 3
    /\ LastAnswered.repetitions = 0
    /\ LastAnswered.interval = 0
    /\ LastAnswered.ease = 24
    /\ loadStats(Engine).bestStreak = 2


(***************************************************************************)
(* getNextCard against the least due of the whole deck.                    *)
(***************************************************************************)
\* The due values of the deck getNextCard has just worked on.
DuesAfter == {deck'.map[i].due : i \in 1..Len(deck'.map)}

\* C26: the card getNextCard returns has due at most the smallest due of the
\* whole deck plus 2, whether some entry is due or none is; so while an entry
\* that was never reviewed (due 0) is in the deck, the card returned has
\* due <= 2.
C26_GlobalWindow ==
    [][ret'.op = "getNextCard" =>
          /\ DuesAfter # {}
          /\ ret'.val[1].due \in DuesAfter
          /\ \A low \in DuesAfter : ret'.val[1].due <= low + 2
          /\ (\E i \in 1..Len(deck'.map) :
                 deck'.map[i].due = 0 /\ deck'.map[i].lastSeen = -1) =>
                ret'.val[1].due <= 2
      ]_vars

\* A deck with a never-reviewed entry and an entry due at tick 3, both due at
\* the clock: the never-reviewed one has been returned.
C26_Witness ==
    /\ ret.op = "getNextCard"
    /\ ret.val[1].due = 0
    /\ ret.val[1].lastSeen = -1
    /\ clock >= 3
    /\ \E i \in 1..Len(deck.map) : deck.map[i].due = 3


(***************************************************************************)
(* What is due right after a load.                                         *)
(***************************************************************************)
\* No entry of the loaded engine state s is due.
NoneDueIn(s) == \A i \in 1..Len(s.deck.map) : s.deck.map[i].due > s.clock

\* C27: right after a load every entry of the deck is due, whatever was
\* scheduled before: the load by getNextCard or getMasteryPercent ends with
\* due <= clock for every entry and getNextCard then returns a due entry; a
\* state in which no entry is due is entered only by a recordAnswer for a held
\* card.
C27_AllDueAfterLoad ==
    /\ [](deck.isNull => ~NoneDueIn(ensureDeck(Engine)))
    /\ [][
          /\ (Loads /\ ret'.op \in {"getNextCard", "getMasteryPercent"}) =>
                (\A i \in 1..Len(deck'.map) : deck'.map[i].due <= clock')
          /\ (Loads /\ ret'.op = "getNextCard") => ret'.val[1].due <= clock'
          /\ (~NoneDueIn(ensureDeck(Engine)) /\ ~deck'.isNull /\ NoneDueIn(Engine1)) =>
                /\ ret'.op = "recordAnswer"
                /\ Known(<<ret'.val[1], ret'.val[2]>>)
         ]_vars

\* A card answered correctly at ticks 1 and 2 (due 5) is due right after the
\* reload: the load has set the clock to 5.
C27_Witness ==
    /\ ret.op = "getNextCard"
    /\ clock = 5
    /\ \E i \in 1..Len(deck.map) :
          /\ deck.map[i].due = 5
          /\ deck.map[i].lastSeen = 2
          /\ deck.map[i].interval = 3
    /\ \A i \in 1..Len(deck.map) : deck.map[i].due <= clock


(***************************************************************************)
(* The clock across reloadDeck and the load that follows it.               *)
(***************************************************************************)
\* Storage holds the deck that is in memory.
StorageIntact == localStorage[STORAGE_KEY] # <<>> /\ StoredCards = deck.map

\* In the loaded engine state s an answer has been recorded since the load: a
\* card carries the current clock as its lastSeen (a load sets the clock above
\* every lastSeen).
AnsweredSinceLoad(s) == \E i \in 1..Len(s.deck.map) : s.deck.map[i].lastSeen = s.clock

\* C28 as stated: when at least one answer has been recorded and storage is
\* intact, the clock the load after a reloadDeck derives is strictly greater
\* than the clock before the reloadDeck.
C28_AsStated ==
    [][(/\ ret'.op = "reloadDeck"
        /\ ~deck.isNull
        /\ StorageIntact
        /\ loadStats(Engine).totalReviews >= 1) =>
          ensureDeck(Engine1).clock > clock
      ]_vars

\* C28, amended: with storage intact, reloadDeck sets the clock to 0 and the
\* load after it derives a clock that is never below the clock before the
\* reloadDeck: strictly greater when an answer has been recorded since the
\* deck was loaded, equal when none has; after resetProgress the load derives
\* 0.  An answer has been recorded since the load exactly when a card's
\* lastSeen is the clock: a load by a read ends with no such card, a recorded
\* answer makes one, and no other step on a loaded deck changes that.
C28_ClockAfterReload ==
    [][
       /\ (ret'.op = "reloadDeck" /\ ~deck.isNull /\ StorageIntact) =>
             /\ clock' = 0
             /\ ensureDeck(Engine1).clock >= clock
             /\ AnsweredSinceLoad(Engine) => ensureDeck(Engine1).clock > clock
             /\ ~AnsweredSinceLoad(Engine) => ensureDeck(Engine1).clock = clock
       /\ (ret'.op = "reloadDeck" /\ BlobsRemoved(localStorage)) =>
             ensureDeck(Engine1).clock = 0
       /\ (Loads /\ ret'.op \in {"getNextCard", "getMasteryPercent"}) =>
             ~AnsweredSinceLoad(Engine1)
       /\ (ret'.op = "recordAnswer" /\ Known(<<ret'.val[1], ret'.val[2]>>)) =>
             AnsweredSinceLoad(Engine1)
       /\ (/\ ~deck.isNull
           /\ ~deck'.isNull
           /\ ~(ret'.op = "recordAnswer" /\ Known(<<ret'.val[1], ret'.val[2]>>))) =>
             (AnsweredSinceLoad(Engine1) <=> AnsweredSinceLoad(Engine))
      ]_vars

\* One correct answer at tick 1, reloadDeck, and the load: the clock is 2, and
\* a second reloadDeck and load will give 2 again.
C28_Witness ==
    /\ ret.op = "getNextCard"
    /\ clock = 2
    /\ StorageIntact
    /\ loadStats(Engine).totalReviews = 1
    /\ ~AnsweredSinceLoad(Engine)
    /\ \E i \in 1..Len(deck.map) : deck.map[i].lastSeen = 1 /\ deck.map[i].due = 2
    /\ ensureDeck(reloadDeck(Engine)).clock = 2


(***************************************************************************)
(* The interval along correct answers.                                     *)
(***************************************************************************)
\* C29: every correct answer for a held card leaves it with a strictly larger
\* interval than it had, so along a run of correct answers the interval
\* strictly increases: from 0 (a new card, or after a miss) to 1, from 1 to 3,
\* and from the third correct answer on to round(interval * ease), which is
\* larger than interval at every ease reached (1.3 at the least).
C29_IntervalGrows ==
    [][\A id \in Identities :
          (Answered(id, TRUE) /\ Known(id)) =>
             /\ After(id).interval > Before(id).interval
             /\ Before(id).repetitions = 0 =>
                   (Before(id).interval = 0 /\ After(id).interval = 1)
             /\ Before(id).repetitions = 1 =>
                   (Before(id).interval = 1 /\ After(id).interval = 3)
             /\ Before(id).repetitions >= 2 =>
                   /\ Before(id).interval >= 3
                   /\ 10 * After(id).interval + 5 > Before(id).interval * Before(id).ease
                   /\ 10 * After(id).interval - 5 <= Before(id).interval * Before(id).ease
      ]_vars

\* Five misses take ease to the floor 1.3; the third correct answer after them
\* finds ease 1.5 and interval 3 and leaves interval 5.
C29_Witness ==
    /\ JustAnswered(TRUE)
    /\ LastAnswered.repetitions = 3
    /\ LastAnswered.interval = 5
    /\ LastAnswered.ease = 16
    /\ clock = 8


(***************************************************************************)
(* recordAnswer after resetProgress, with the old deck still in memory.    *)
(***************************************************************************)
\* C30: when both blobs have been removed and the deck loaded before is still
\* in memory (resetProgress without reloadDeck), recordAnswer for a held card
\* writes that whole deck back: the deck blob is the in-memory deck, every
\* other card with the progress it had before the reset; the Stats start from
\* zero, so the stats blob counts one review while the deck blob carries the
\* tick of every answer recorded before the reset.
C30_DeckReappears ==
    [][\A id \in Identities, correct \in BOOLEAN :
          (/\ Answered(id, correct)
           /\ ~deck.isNull
           /\ MapHas(deck.map, id)
           /\ BlobsRemoved(localStorage)) =>
             /\ localStorage'[STORAGE_KEY] # <<>>
             /\ loadDeck(Engine1) = deck'.map
             /\ \A k \in KeySet(deck.map) \ {id} :
                   MapGet(loadDeck(Engine1), k) = MapGet(deck.map, k)
             /\ clock' = clock + 1
             /\ MapGet(loadDeck(Engine1), id).lastSeen = clock + 1
             /\ loadStats(Engine1) = updateStats(ZeroStats, correct)
             /\ clock >= 1 =>
                   MapGet(loadDeck(Engine1), id).lastSeen > loadStats(Engine1).totalReviews
      ]_vars

\* AA|UTG answered at tick 1, resetProgress, KK|UTG answered at tick 2: storage
\* holds AA|UTG as answered at tick 1 again, and Stats with one review.
C30_Witness ==
    /\ \E correct \in BOOLEAN : JustAnswered(correct)
    /\ ret.val[1] = "KK"
    /\ clock = 2
    /\ StorageIntact
    /\ MapGet(StoredCards, <<"AA", "UTG">>).lastSeen = 1
    /\ MapGet(StoredCards, <<"KK", "UTG">>).lastSeen = 2
    /\ loadStats(Engine).totalReviews = 1


(***************************************************************************)
(* Ticks.                                                                  *)
(***************************************************************************)
\* No two entries of map that have been seen carry the same lastSeen.
DistinctTicks(map) ==
    \A i, j \in 1..Len(map) :
       (i # j /\ map[i].lastSeen # -1) => map[i].lastSeen # map[j].lastSeen

\* C31: in a single session every card of the deck has lastSeen <= clock, and
\* no two cards that have been seen share a lastSeen, in memory or in the
\* persisted deck: every recorded answer gets a tick of its own, also after
\* reloadDeck and the load that follows; the tick a recorded answer stamps is
\* above every lastSeen of the deck it works on.
C31_UniqueTicks ==
    /\ [](/\ \A i \in 1..Len(deck.map) : deck.map[i].lastSeen <= clock
          /\ DistinctTicks(deck.map)
          /\ DistinctTicks(StoredCards)
          /\ deck.isNull =>
                LET d == ensureDeck(Engine)
                IN /\ DistinctTicks(d.deck.map)
                   /\ \A i \in 1..Len(d.deck.map) : d.deck.map[i].lastSeen < d.clock)
    /\ [][\A id \in Identities, correct \in BOOLEAN :
             (Answered(id, correct) /\ Known(id)) =>
                LET before == ensureDeck(Engine).deck.map
                IN /\ After(id).lastSeen = clock'
                   /\ \A i \in 1..Len(before) : before[i].lastSeen < clock'
         ]_vars

\* AA|UTG answered at tick 1, reloadDeck, a load (clock 2), KK|UTG answered:
\* its tick is 3.
C31_Witness ==
    /\ \E correct \in BOOLEAN : JustAnswered(correct)
    /\ ret.val[1] = "KK"
    /\ clock = 3
    /\ MapGet(deck.map, <<"AA", "UTG">>).lastSeen = 1
    /\ MapGet(deck.map, <<"KK", "UTG">>).lastSeen = 3
    /\ loadStats(Engine).totalReviews = 2


(***************************************************************************)
(* The App's event loop.                                                   *)
(***************************************************************************)
\* The step is a draw: the mount effect, drawCard or handleReset.
AppDrew == ret'.op \in {"mount", "drawCard", "handleReset"}

\* C32: at most one answer is recorded per drawn card.  A handleAction called
\* while feedback is shown (or before a card is drawn) calls recordAnswer not
\* at all and changes nothing; a handleAction that records makes exactly one
\* call, on a state without feedback, sets feedback, and passes the hand and
\* position of the card held, with correct as getCorrectActions says; feedback
\* is cleared only by a draw, and the card held is always the card the last
\* getNextCard returned, which changes only in a draw.
C32_OneAnswerPerDraw ==
    [][
        /\ (ret'.op = "handleAction" /\ (app.feedback # <<>> \/ app.card = <<>>)) =>
              (ret'.val = <<>> /\ app' = app)
        /\ (ret'.op = "handleAction" /\ ret'.val = <<>>) =>
              (deck' = deck /\ clock' = clock /\ localStorage' = localStorage)
        /\ (ret'.op = "handleAction" /\ ret'.val # <<>>) =>
              (/\ Len(ret'.val) = 1
               /\ app.feedback = <<>>
               /\ app'.feedback # <<>>
               /\ app.card # <<>>
               /\ app'.card = app.card
               /\ ret'.val[1][1] = app.card[1].hand
               /\ ret'.val[1][2] = app.card[1].position
               /\ ret'.val[1][3] = app'.feedback[1].correct
               /\ ret'.val[1][3] =
                     (app'.feedback[1].chosen \in
                         getCorrectActions(app.card[1].hand, app.card[1].position))
               /\ clock' = clock + 1
               /\ loadStats(Engine1).totalReviews = loadStats(Engine).totalReviews + 1
               /\ MapGet(deck'.map, <<app.card[1].hand, app.card[1].position>>).lastSeen
                     = clock')
        /\ (clock' # clock /\ ~AppDrew) => (ret'.op = "handleAction" /\ ret'.val # <<>>)
        /\ (app.feedback # <<>> /\ app'.feedback = <<>>) => AppDrew
        /\ app'.card # app.card => AppDrew
        /\ AppDrew =>
              (/\ app'.card = <<[hand |-> ret'.val[1].hand,
                                 position |-> ret'.val[1].position]>>
               /\ app'.feedback = <<>>
               /\ ret'.val[1] \in {pool(Engine1)[i] : i \in 1..Len(pool(Engine1))})
    ]_vars

\* AA|UTG was drawn and answered, feedback is shown, and a further handleAction
\* has returned without a call of recordAnswer: one review is recorded.
C32_Witness ==
    /\ ret.op = "handleAction"
    /\ ret.val = <<>>
    /\ app.feedback # <<>>
    /\ app.card = <<[hand |-> "AA", position |-> "UTG"]>>
    /\ clock = 1
    /\ loadStats(Engine).totalReviews = 1
    /\ MapGet(deck.map, <<"AA", "UTG">>).lastSeen = 1

====
